---------------------------- MODULE Spec2Model ----------------------------
(***************************************************************************)
(* Double-entry ledger core of finance-ledger-backend:                     *)
(*   backend/ledger/repos.py            DjangoAccountsRepo,                *)
(*                                      DjangoTransactionsRepo             *)
(*   backend/services/import_service.py ImportService.import_csv           *)
(*   backend/ledger/models.py           the relational store               *)
(*                                                                         *)
(* Money: an amount handed to the repository is a decimal; the model       *)
(* writes it in thousandths ("mills", 10 mills = 0.01).  A quantized       *)
(* Decimal is a whole number of cents.  A stored Split.amount is a float   *)
(* (models.FloatField): ToFloat writes it in units of 1/FloatUnit cent     *)
(* with the representation error of the binary format.                     *)
(***************************************************************************)
EXTENDS Integers, Sequences, FiniteSets, TLC

VARIABLES db, last, proc, mem

vars == <<db, last, proc, mem>>

(***************************************************************************)
(* Bounds of the model.                                                    *)
(***************************************************************************)
MaxSplits       == 2   \* splits in one create() call
MaxRows         == 2   \* data rows of an imported CSV file
MaxRepoAccounts == 2   \* Account rows, repository calls alone (SpecTx)
MaxRepoTxs      == 1   \* Transaction rows, repository calls alone (SpecTx)
MaxTransactions == 2   \* Transaction rows, imports (Spec, SpecConc)
MaxAccounts     == 4   \* Account rows, imports (Spec, SpecConc)
MaxImportRuns   == 2   \* ImportRecord primary keys handed out
MaxLedgerPk     == 2   \* Ledger primary keys the AutoField hands out

LedgerIds     == {1, 2}
Usernames     == {"alice", "bob"}   \* User.username of the users of the views
DefaultLedger == 1     \* DjangoAccountsRepo.create(..., ledger_id: int = 1)
None      == 0         \* Python None / SQL NULL for ids and dates

(***************************************************************************)
(* Decimal and float arithmetic.                                           *)
(***************************************************************************)
\* Decimal.quantize(Decimal("0.01")) under the default context rounding
\* ROUND_HALF_EVEN: n is a number of units of 1/unit cent, the result is in
\* cents.
QuantizeHalfEven(n, unit) ==
    LET q == n \div unit
        r == n % unit
    IN  IF 2 * r < unit THEN q
        ELSE IF 2 * r > unit THEN q + 1
        ELSE IF q % 2 = 0 THEN q ELSE q + 1

MillsPerCent == 10

\* float(Decimal): the double nearest to the 2-decimal value c/100.  A double
\* has 53 significant bits: with 2^k <= c/100 < 2^(k+1) it is m / 2^(52-k)
\* for the integer m nearest to c * 2^(52-k) / 100, so the direction of the
\* error is decided by the remainder of c * 2^(52-k) modulo 100: 0 is exact
\* (c is a multiple of 25), below 50 rounds down, above 50 rounds up (50
\* cannot occur, the product being a multiple of 4).  The error is a
\* fraction of a cent far below the quantization step and is kept as one
\* unit of 1/FloatUnit cent.  float(-x) = -float(x).
FloatUnit == 1000

\* The k with den * 2^k <= num < den * 2^(k+1), for num, den > 0.
RECURSIVE BinaryExponent(_, _)
BinaryExponent(num, den) ==
    IF num >= 2 * den THEN BinaryExponent(num, 2 * den) + 1
    ELSE IF num < den THEN BinaryExponent(2 * num, den) - 1
    ELSE 0

RECURSIVE Pow2Mod100(_)
Pow2Mod100(n) == IF n = 0 THEN 1 ELSE (2 * Pow2Mod100(n - 1)) % 100

\* The direction of the error for c > 0.
FloatErrPositive(c) ==
    LET r == ((c % 100) * Pow2Mod100(52 - BinaryExponent(c, 100))) % 100
    IN  IF r = 0 THEN 0 ELSE IF r < 50 THEN -1 ELSE 1

FloatErr(c) ==
    IF c = 0 THEN 0
    ELSE IF c < 0 THEN 0 - FloatErrPositive(0 - c)
    ELSE FloatErrPositive(c)
ToFloat(c) == c * FloatUnit + FloatErr(c)

\* Decimal(str(f)).quantize(Decimal("0.01")) of a float (sum) f, in cents.
Quantize2(f) == QuantizeHalfEven(f, FloatUnit)

\* A raw amount as handed to the repository: a number (in mills) or a value
\* Decimal() cannot parse.
Num(m) == [kind |-> "num", v |-> m]
BadAmount == [kind |-> "bad", v |-> 0]

\* A split's account reference: 'account_id', 'account_name' or neither key.
RefId(i)   == [kind |-> "account_id", id |-> i, name |-> ""]
RefName(n) == [kind |-> "account_name", id |-> None, name |-> n]
RefNone    == [kind |-> "none", id |-> None, name |-> ""]

\* DjangoTransactionsRepo._normalize_amount: Decimal(str(raw)) or
\* ValidationError, then quantized to 2 decimals (per split).
normalize_ok(raw) == raw.kind = "num"
normalize_amount(raw) == QuantizeHalfEven(raw.v, MillsPerCent)

RECURSIVE SumSeq(_)
SumSeq(s) == IF s = <<>> THEN 0 ELSE Head(s) + SumSeq(Tail(s))

SeqMap(F(_), s) == [i \in 1..Len(s) |-> F(s[i])]

\* F applied to the value of e, e being evaluated once.
With(e, F(_)) == CHOOSE y \in {F(x) : x \in {e}} : TRUE

(***************************************************************************)
(* The store (backend/ledger/models.py).  Primary keys of Account and      *)
(* Transaction are the row's position.  No code deletes an Account; the    *)
(* one delete of a Transaction (create_double_entry_transaction) leaves    *)
(* DeletedTransaction at the row's position, the AutoField not handing a   *)
(* primary key out twice.  No code writes a Rule or deletes a Ledger.       *)
(***************************************************************************)
EmptyDB ==
    [ Ledger       |-> {},      \* [ledgerID, username]
      Rule         |-> <<>>,    \* [matcher_type, matcher, category, necessary]
      Account      |-> <<>>,    \* [ledger, name, account_type, parent, is_active]
      Transaction  |-> <<>>,    \* [ledger, date, necessary]
      Split        |-> <<>>,    \* [transaction, account, amount]
      Tag          |-> {},      \* name (unique)
      TxTags       |-> {},      \* <<transaction, tag name>>
      ImportRecord |-> {},      \* [id, file_hash, imported_count, tx_ids, errors]
      importSeq    |-> 0 ]      \* last ImportRecord primary key handed out

\* The in-memory repositories (InMemoryAccountsRepo, InMemoryTransactionsRepo):
\* _store in insertion order, _next = length + 1.
EmptyMem == [accounts |-> <<>>, txs |-> <<>>]

\* The position of a Transaction row that was deleted.
DeletedTransaction == [ledger |-> None, date |-> None, necessary |-> FALSE]

\* The primary keys of the Transaction rows of the store.
TxIds(d) == {tx \in 1..Len(d.Transaction) : d.Transaction[tx] # DeletedTransaction}

\* The primary keys of the Ledger rows, and those of the rows of a username
\* (username is not unique).
LedgerPks(d) == {l.ledgerID : l \in d.Ledger}
LedgerRows(d, username) == {l.ledgerID : l \in {x \in d.Ledger : x.username = username}}

\* The primary key the AutoField gives the next Ledger row.
NextLedgerPk(d) ==
    IF d.Ledger = {} THEN 1
    ELSE 1 + CHOOSE i \in LedgerPks(d) : \A j \in LedgerPks(d) : j <= i

\* The INSERT of a Ledger row.
LedgerInsertRow(d, ledger_id, username) ==
    [d EXCEPT !.Ledger = @ \cup {[ledgerID |-> ledger_id, username |-> username]}]

\* Ledger.objects.get_or_create(pk=ledger_id, defaults={'username': ...}):
\* the row of that primary key is inserted unless it exists.  The INSERT of
\* a key that another call inserted since the SELECT raises IntegrityError
\* inside get_or_create, which then fetches the row, so the call has the
\* effect of its write statement alone.
LedgerByPk(d, ledger_id, username) ==
    IF ledger_id \in LedgerPks(d) THEN d ELSE LedgerInsertRow(d, ledger_id, username)

SplitsOf(d, tx) == SelectSeq(d.Split, LAMBDA s : s.transaction = tx)
AmountsOf(d, tx) == SeqMap(LAMBDA s : s.amount, SplitsOf(d, tx))

\* Account.objects.filter(name=name).first(): lowest primary key, or None.
get_by_name(d, name) ==
    LET hits == {i \in 1..Len(d.Account) : d.Account[i].name = name}
    IN  IF hits = {} THEN None ELSE CHOOSE i \in hits : \A j \in hits : i <= j

\* Account.objects.filter(ledger=ledger_id, name=name): primary keys.
AccountsNamed(d, n, L) ==
    {i \in 1..Len(d.Account) : d.Account[i].name = n /\ d.Account[i].ledger = L}

\* DjangoAccountsRepo.create: the parent row is looked up by primary key
\* (None when parent is falsy or no such row), the ledger row is
\* get_or_create'd, then the account is inserted.
AccountsRepo_create(d, name, account_type, parent, is_active, ledger_id) ==
    LET parent_obj == IF parent \in 1..Len(d.Account) THEN parent ELSE None
    IN  [ db |-> [LedgerByPk(d, ledger_id, "default") EXCEPT
                     !.Account = Append(@, [ledger |-> ledger_id, name |-> name,
                                             account_type |-> account_type,
                                             parent |-> parent_obj,
                                             is_active |-> is_active])],
          id |-> Len(d.Account) + 1 ]

(***************************************************************************)
(* DjangoTransactionsRepo.create                                           *)
(***************************************************************************)
Fail(d, e, t) == [ok |-> FALSE, err |-> e, total |-> t, tx |-> None, db |-> d]
Done(d, tx)   == [ok |-> TRUE, err |-> "", total |-> 0, tx |-> tx, db |-> d]

\* A tag name Tag.objects.get_or_create cannot store (e.g. None).
BadTag == "<null>"

\* The loop over decimal_splits inside the atomic block: resolve the account
\* of split k, write the Split row, go on; the first unresolvable reference
\* raises with the rows written so far still in the open transaction.
RECURSIVE WriteSplits(_, _, _, _)
WriteSplits(d, tx, splits, k) ==
    IF k > Len(splits) THEN Done(d, tx)
    ELSE LET s == splits[k]
             account ==
                 IF s.ref.kind = "account_id"
                 THEN (IF s.ref.id \in 1..Len(d.Account) THEN s.ref.id ELSE None)
                 ELSE IF s.ref.kind = "account_name"
                 THEN get_by_name(d, s.ref.name)
                 ELSE None
         IN  IF account = None
             THEN Fail(d, IF s.ref.kind = "account_id" THEN "AccountIdNotFound"
                          ELSE IF s.ref.kind = "account_name" THEN "AccountNameNotFound"
                          ELSE "NoAccountRef", 0)
             ELSE WriteSplits(
                    [d EXCEPT !.Split = Append(@,
                        [transaction |-> tx, account |-> account,
                         amount |-> ToFloat(normalize_amount(s.amount))])],
                    tx, splits, k + 1)

\* The loop over tags: Tag.objects.get_or_create(name=t); tx.tags.add(tag).
RECURSIVE AttachTags(_, _, _, _)
AttachTags(d, tx, tags, k) ==
    IF k > Len(tags) THEN Done(d, tx)
    ELSE IF tags[k] = BadTag THEN Fail(d, "TagError", 0)
    ELSE AttachTags([d EXCEPT !.Tag = @ \cup {tags[k]},
                              !.TxTags = @ \cup {<<tx, tags[k]>>}],
                    tx, tags, k + 1)

\* The body of `with db_transaction.atomic():`
AtomicBody(d, in) ==
    IF in.ledger_id \notin LedgerPks(d) THEN Fail(d, "LedgerNotFound", 0)
    ELSE IF in.date = None THEN Fail(d, "IntegrityError", 0)
    ELSE LET tx == Len(d.Transaction) + 1
             d1 == [d EXCEPT !.Transaction =
                        Append(@, [ledger |-> in.ledger_id, date |-> in.date,
                                   necessary |-> in.necessary])]
         IN  With(WriteSplits(d1, tx, in.splits, 1), LAMBDA w :
                  IF ~w.ok THEN w ELSE AttachTags(w.db, tx, in.tags, 1))

\* db_transaction.atomic(): an exception leaving the block rolls the store
\* back to what it was on entry.
AtomicNoRollback(before, r) == r
Atomic(before, r) == IF r.ok THEN r ELSE [r EXCEPT !.db = before]

\* total: the per-split quantized amounts summed, then quantized again (a
\* no-op on a sum of 2-decimal values); in cents.
TotalPostSum(splits) ==
    QuantizeHalfEven(SumSeq(SeqMap(LAMBDA s : s.amount.v, splits)), MillsPerCent)
Total(splits) == SumSeq(SeqMap(LAMBDA s : normalize_amount(s.amount), splits))

Repo_create(d, in) ==
    IF Len(in.splits) = 0 THEN Fail(d, "NoSplits", 0)
    ELSE IF \E k \in 1..Len(in.splits) : ~normalize_ok(in.splits[k].amount)
    THEN Fail(d, "InvalidAmount", 0)
    ELSE IF Total(in.splits) # 0 THEN Fail(d, "NotBalanced", Total(in.splits))
    ELSE With(AtomicBody(d, in), LAMBDA r : Atomic(d, r))

(***************************************************************************)
(* backend/services/import_service.py                                      *)
(***************************************************************************)
\* A CSV file is its data lines, a rules file its rule entries; each line and
\* entry is written as a token, parsed by RowOf / RuleOf.
RulesMarker == "::RULES::"

\* _compute_hash: SHA-256 (taken as collision-free) over file_bytes, then,
\* when rules_bytes is non-empty, the marker and rules_bytes.
compute_hash(file_bytes, rules_bytes) ==
    IF rules_bytes # <<>> THEN file_bytes \o <<RulesMarker>> \o rules_bytes
    ELSE file_bytes

\* csv.DictReader row -> the fields import_csv reads from it.
\*   amount: the amount cell (kind "nocol": no amount column; "paren": the
\*           accounting notation "(v)"), date: the parsed date cell (None when
\*           _parse_date finds no format), text: combined_text, tags: the
\*           tags cell as its pieces, each a word, a blank " " or one of the
\*           separators "," and "|" (<<>>: no tags column, or an empty cell).
RowOf(tok) ==
    CASE tok = "neg"     -> [amount |-> [kind |-> "num", v |-> -50000], date |-> 1,
                             text |-> "Grocery Store", tags |-> <<>>]
      [] tok = "pos"     -> [amount |-> [kind |-> "num", v |-> 20000], date |-> 1,
                             text |-> "Salary",
                             tags |-> <<"pay", ",", "net", "|", "fun">>]
      [] tok = "paren"   -> [amount |-> [kind |-> "paren", v |-> 12345], date |-> 1,
                             text |-> "Grocery Store",
                             tags |-> <<"food", ",", " ", "fun", ",">>]
      [] tok = "zero"    -> [amount |-> [kind |-> "num", v |-> 0], date |-> 1,
                             text |-> "Salary", tags |-> <<>>]
      [] tok = "badamt"  -> [amount |-> [kind |-> "bad", v |-> 0], date |-> 1,
                             text |-> "Salary", tags |-> <<>>]
      [] tok = "baddate" -> [amount |-> [kind |-> "num", v |-> -50000], date |-> None,
                             text |-> "Salary", tags |-> <<>>]
      [] OTHER           -> [amount |-> [kind |-> "nocol", v |-> 0], date |-> 1,
                             text |-> "Imported Transaction", tags |-> <<>>]

\* _parse_amount: strip, drop commas, "(x)" -> "-x", Decimal(); in mills.
parse_amount_ok(a) == a.kind \in {"num", "paren"}
parse_amount(a) == IF a.kind = "paren" THEN -a.v ELSE a.v

\* str.strip() of a string given as its pieces.
RECURSIVE str_strip(_)
str_strip(w) ==
    IF w # <<>> /\ Head(w) = " " THEN str_strip(Tail(w))
    ELSE IF w # <<>> /\ w[Len(w)] = " " THEN str_strip(SubSeq(w, 1, Len(w) - 1))
    ELSE w

\* The string of a sequence of pieces.
RECURSIVE str_join(_)
str_join(w) == IF w = <<>> THEN "" ELSE Head(w) \o str_join(Tail(w))

\* str.split(sep) of the string `pieces`; cur is the item being read.
RECURSIVE str_split(_, _, _)
str_split(pieces, sep, cur) ==
    IF pieces = <<>> THEN <<cur>>
    ELSE IF Head(pieces) = sep THEN <<cur>> \o str_split(Tail(pieces), sep, <<>>)
    ELSE str_split(Tail(pieces), sep, Append(cur, Head(pieces)))

\* import_csv lines 268-275: the tags of a row.  The cell is split at "|"
\* when it holds one, else at ","; items are stripped, empty ones dropped.
row_tags(cell) ==
    LET sep   == IF \E k \in 1..Len(cell) : cell[k] = "|" THEN "|" ELSE ","
        items == IF cell = <<>> THEN <<>> ELSE str_split(cell, sep, <<>>)
        kept  == SelectSeq(items, LAMBDA t : str_strip(t) # <<>>)
    IN  [k \in 1..Len(kept) |-> str_join(str_strip(kept[k]))]

\* A rules entry of the YAML document.  A keyword matcher is written as the
\* list [k.strip() for k in matcher.split(",") if k.strip()] (<<>> for an
\* empty matcher), a regex matcher as the pattern ("" when empty).
RuleOf(tok) ==
    CASE tok = "R_food"  -> [matcher_type |-> "keyword", matcher |-> <<"grocery", "supermarket">>,
                             category |-> "Food", necessary |-> TRUE]
      [] tok = "R_shop"  -> [matcher_type |-> "keyword", matcher |-> <<"STORE">>,
                             category |-> "Shopping", necessary |-> FALSE]
      [] tok = "R_re"    -> [matcher_type |-> "regex", matcher |-> "^gro",
                             category |-> "Groceries", necessary |-> TRUE]
      [] tok = "R_badre" -> [matcher_type |-> "regex", matcher |-> "sal(ary",
                             category |-> "Pay", necessary |-> FALSE]
      [] tok = "R_nore"  -> [matcher_type |-> "regex", matcher |-> "",
                             category |-> "Pay", necessary |-> FALSE]
      [] OTHER           -> [matcher_type |-> "keyword", matcher |-> <<>>,
                             category |-> "Misc", necessary |-> FALSE]

\* kw.lower() in text.lower()
Contains(text, kw) ==
    <<text, kw>> \in {<<"Grocery Store", "grocery">>, <<"Grocery Store", "store">>,
                      <<"Grocery Store", "STORE">>, <<"Salary", "salary">>}

\* re.search(pattern, text, flags=re.IGNORECASE): "error" is re.error.
RegexSearch(pattern, text) ==
    IF pattern = "sal(ary" THEN "error"
    ELSE IF <<pattern, text>> \in {<<"^gro", "Grocery Store">>} THEN "match"
    ELSE "nomatch"

\* A faulty variant in which the last rule that holds wins.
match_rule_last(text, rules_list) ==
    LET hit(r) == IF r.matcher_type = "keyword"
                  THEN /\ r.matcher # <<>>
                       /\ \E k \in 1..Len(r.matcher) : Contains(text, r.matcher[k])
                  ELSE /\ r.matcher_type = "regex"
                       /\ r.matcher # ""
                       /\ RegexSearch(r.matcher, text) = "match"
        hits == {i \in 1..Len(rules_list) : hit(rules_list[i])}
    IN  IF hits = {} THEN None ELSE CHOOSE i \in hits : \A j \in hits : i >= j

\* _match_rule: index of the first rule whose predicate holds, 0 for None.
\* A rule with an empty matcher, an unknown matcher_type or a pattern that
\* raises re.error is passed over.
match_rule(text, rules_list) ==
    LET hit(r) == IF r.matcher_type = "keyword"
                  THEN /\ r.matcher # <<>>
                       /\ \E k \in 1..Len(r.matcher) : Contains(text, r.matcher[k])
                  ELSE /\ r.matcher_type = "regex"
                       /\ r.matcher # ""
                       /\ RegexSearch(r.matcher, text) = "match"
        hits == {i \in 1..Len(rules_list) : hit(rules_list[i])}
    IN  IF hits = {} THEN None ELSE CHOOSE i \in hits : \A j \in hits : i <= j

\* ":" in category
HasColon(category) ==
    category \in {"Expenses:Uncategorized", "Income:Uncategorized", "ASSET:Bank"}

\* detect_type_from_name
NameHas(name, sub) ==
    <<name, sub>> \in {<<"ASSET:Bank", "asset">>,
                       <<"Expenses:Uncategorized", "expense">>,
                       <<"Expenses:Food", "expense">>,
                       <<"Income:Uncategorized", "income">>,
                       <<"Income:Food", "income">>}
detect_type_from_name(name) ==
    IF NameHas(name, "asset") THEN "ASSET"
    ELSE IF NameHas(name, "liabil") THEN "LIABILITY"
    ELSE IF NameHas(name, "income") THEN "INCOME"
    ELSE IF NameHas(name, "expense") THEN "EXPENSE"
    ELSE "ASSET"

\* A faulty variant that reuses the first account of that name whatever its
\* ledger.
ensure_account_any_ledger(d, account_name, fallback_type, ledger_id) ==
    LET acc == get_by_name(d, account_name)
    IN  IF acc # None THEN [db |-> d, id |-> acc]
        ELSE AccountsRepo_create(d, account_name, fallback_type, None, TRUE, ledger_id)

\* _ensure_account: reuse the first account of that name when it belongs to
\* the target ledger, otherwise create one in the target ledger.
ensure_account(d, account_name, fallback_type, ledger_id) ==
    LET acc == get_by_name(d, account_name)
    IN  IF acc # None /\ d.Account[acc].ledger = ledger_id
        THEN [db |-> d, id |-> acc]
        ELSE AccountsRepo_create(d, account_name, fallback_type, None, TRUE, ledger_id)

\* ImportRecord.objects.filter(file_hash=h).first()
FindImport(d, h) == {r \in d.ImportRecord : r.file_hash = h}

\* Faulty variants of the idempotency check: one that ignores force, one
\* that never skips, one that reports a count of 0 on a skip, one that keeps
\* the stale record.
ImportCheckForceIgnored(d, in) ==
    LET found == FindImport(d, compute_hash(in.file, in.rules))
    IN  IF found = {} THEN [skip |-> FALSE, existing |-> None, count |-> 0, db |-> d]
        ELSE LET existing == CHOOSE r \in found : TRUE
             IN  IF existing.imported_count > 0
                 THEN [skip |-> TRUE, existing |-> existing.id,
                       count |-> existing.imported_count, db |-> d]
                 ELSE [skip |-> FALSE, existing |-> existing.id, count |-> 0,
                       db |-> [d EXCEPT !.ImportRecord = @ \ {existing}]]
ImportCheckNoSkip(d, in) ==
    LET found == FindImport(d, compute_hash(in.file, in.rules))
    IN  IF found = {} THEN [skip |-> FALSE, existing |-> None, count |-> 0, db |-> d]
        ELSE LET existing == CHOOSE r \in found : TRUE
             IN  [skip |-> FALSE, existing |-> existing.id, count |-> 0,
                  db |-> [d EXCEPT !.ImportRecord = @ \ {existing}]]
ImportCheckZeroCount(d, in) ==
    LET found == FindImport(d, compute_hash(in.file, in.rules))
    IN  IF found = {} THEN [skip |-> FALSE, existing |-> None, count |-> 0, db |-> d]
        ELSE LET existing == CHOOSE r \in found : TRUE
             IN  IF ~in.force /\ existing.imported_count > 0
                 THEN [skip |-> TRUE, existing |-> existing.id, count |-> 0, db |-> d]
                 ELSE [skip |-> FALSE, existing |-> existing.id, count |-> 0,
                       db |-> [d EXCEPT !.ImportRecord = @ \ {existing}]]
ImportCheckStaleKept(d, in) ==
    LET found == FindImport(d, compute_hash(in.file, in.rules))
    IN  IF found = {} THEN [skip |-> FALSE, existing |-> None, count |-> 0, db |-> d]
        ELSE LET existing == CHOOSE r \in found : TRUE
             IN  IF in.force
                 THEN [skip |-> FALSE, existing |-> existing.id, count |-> 0,
                       db |-> [d EXCEPT !.ImportRecord = @ \ {existing}]]
                 ELSE IF existing.imported_count > 0
                 THEN [skip |-> TRUE, existing |-> existing.id,
                       count |-> existing.imported_count, db |-> d]
                 ELSE [skip |-> FALSE, existing |-> existing.id, count |-> 0, db |-> d]

\* import_csv lines 131-150, the idempotency check.  skip: return the prior
\* record; otherwise an existing record is deleted.
ImportCheck(d, in) ==
    LET h == compute_hash(in.file, in.rules)
        found == FindImport(d, h)
    IN  IF found = {} THEN [skip |-> FALSE, existing |-> None, count |-> 0, db |-> d]
        ELSE LET existing == CHOOSE r \in found : TRUE
             IN  IF in.force
                 THEN [skip |-> FALSE, existing |-> existing.id, count |-> 0,
                       db |-> [d EXCEPT !.ImportRecord = @ \ {existing}]]
                 ELSE IF existing.imported_count > 0
                 THEN [skip |-> TRUE, existing |-> existing.id,
                       count |-> existing.imported_count, db |-> d]
                 ELSE [skip |-> FALSE, existing |-> existing.id, count |-> 0,
                       db |-> [d EXCEPT !.ImportRecord = @ \ {existing}]]

\* import_csv line 155: f"ledger_{ledger_id}".
LedgerName(ledger_id) == "ledger_" \o ToString(ledger_id)

\* import_csv lines 152-192: Ledger get_or_create, the asset account.
ImportSetup(d, in) ==
    ensure_account(LedgerByPk(d, in.ledger_id, LedgerName(in.ledger_id)),
                   in.asset_account_name,
                   detect_type_from_name(in.asset_account_name), in.ledger_id)

Today == 1   \* timezone.now().date()

\* import_csv lines 157-170: the rules of the rules file when one is given,
\* else the Rule rows in the order of their primary key.
load_rules(d, in) == IF in.rules # <<>> THEN SeqMap(RuleOf, in.rules) ELSE d.Rule

\* import_csv lines 235-256: the counter-account of a row, its name and type.
RowCategory(text, amount, rules_list) ==
    LET m        == match_rule(text, rules_list)
        category == IF m # None THEN rules_list[m].category
                    ELSE IF amount < 0 THEN "Expenses:Uncategorized"
                    ELSE "Income:Uncategorized"
        necessary == IF m # None THEN rules_list[m].necessary ELSE FALSE
    IN  IF ~HasColon(category)
        THEN (IF amount < 0
              THEN [name |-> "Expenses:" \o category, type |-> "EXPENSE",
                    necessary |-> necessary]
              ELSE [name |-> "Income:" \o category, type |-> "INCOME",
                    necessary |-> necessary])
        ELSE [name |-> category, type |-> detect_type_from_name(category),
              necessary |-> necessary]

\* A faulty variant with the signs exchanged.
RowSplitsSwapped(amount, asset_acc, category_acc) ==
    << [amount |-> Num(-amount), ref |-> RefId(asset_acc)],
       [amount |-> Num(amount), ref |-> RefId(category_acc)] >>

\* import_csv lines 260-266: asset account gets amount, counter-account -amount.
RowSplits(amount, asset_acc, category_acc) ==
    << [amount |-> Num(amount), ref |-> RefId(asset_acc)],
       [amount |-> Num(-amount), ref |-> RefId(category_acc)] >>

\* import_csv lines 194-292, the body of the loop for one row.
\* Result: ok, the created transaction id, the error text, the store.
ImportRow(d, in, asset_acc, row) ==
    IF row.amount.kind = "nocol" THEN Fail(d, "No amount column found", 0)
    ELSE IF ~parse_amount_ok(row.amount) THEN Fail(d, "InvalidOperation", 0)
    ELSE
    With(parse_amount(row.amount), LAMBDA amount :
    With(RowCategory(row.text, amount, load_rules(d, in)), LAMBDA cat :
    With(ensure_account(d, cat.name, cat.type, in.ledger_id), LAMBDA e :
    With([ledger_id |-> in.ledger_id, date |-> row.date,
          splits |-> RowSplits(amount, asset_acc, e.id), tags |-> row_tags(row.tags),
          necessary |-> cat.necessary],
         LAMBDA call : Repo_create(e.db, call)))))

\* import_csv lines 294-301: ImportRecord.objects.create; file_hash is unique.
ImportRecordWrite(d, h, created, tx_ids, errors) ==
    IF FindImport(d, h) # {} THEN [ok |-> FALSE, id |-> None, db |-> d]
    ELSE LET id == d.importSeq + 1
         IN  [ok |-> TRUE, id |-> id,
              db |-> [d EXCEPT !.importSeq = id,
                               !.ImportRecord = @ \cup
                                   {[id |-> id, file_hash |-> h, imported_count |-> created,
                                     tx_ids |-> tx_ids, errors |-> errors]}]]

\* A faulty variant of the loop that stops at the first row that fails.
RECURSIVE ImportRowsAbort(_, _, _, _)
ImportRowsAbort(acc, in, asset_acc, idx) ==
    IF idx > Len(in.file) THEN acc
    ELSE With(ImportRow(acc.db, in, asset_acc, RowOf(in.file[idx])),
              LAMBDA r :
                IF r.ok
                THEN ImportRowsAbort([db |-> r.db, tx_ids |-> Append(acc.tx_ids, r.tx),
                                      errors |-> acc.errors],
                                     in, asset_acc, idx + 1)
                ELSE [db |-> r.db, tx_ids |-> acc.tx_ids,
                      errors |-> Append(acc.errors, idx)])

\* The loop over the rows: acc carries the store, created_tx_ids and errors
\* (the 1-based indexes of the failed rows).
RECURSIVE ImportRows(_, _, _, _)
ImportRows(acc, in, asset_acc, idx) ==
    IF idx > Len(in.file) THEN acc
    ELSE With(ImportRow(acc.db, in, asset_acc, RowOf(in.file[idx])),
              LAMBDA r :
                ImportRows([db |-> r.db,
                            tx_ids |-> IF r.ok THEN Append(acc.tx_ids, r.tx)
                                       ELSE acc.tx_ids,
                            errors |-> IF r.ok THEN acc.errors
                                       ELSE Append(acc.errors, idx)],
                           in, asset_acc, idx + 1))

ImportResult(ok, skipped, created_count, import_record, errors, d) ==
    [ok |-> ok, skipped |-> skipped, created_count |-> created_count,
     import_record |-> import_record, errors |-> errors, db |-> d]

\* import_csv after the idempotency check c let the call go on.
ImportRunCountsRows(c, in) ==
    With(ImportSetup(c.db, in), LAMBDA s :
    With(ImportRows([db |-> s.db, tx_ids |-> <<>>, errors |-> <<>>], in, s.id, 1),
         LAMBDA rs :
    With(ImportRecordWrite(rs.db, compute_hash(in.file, in.rules),
                           Len(in.file), rs.tx_ids, rs.errors),
         LAMBDA w :
    ImportResult(w.ok, FALSE, Len(in.file), w.id, rs.errors, w.db))))

ImportRun(c, in) ==
    With(ImportSetup(c.db, in), LAMBDA s :
    With(ImportRows([db |-> s.db, tx_ids |-> <<>>, errors |-> <<>>], in, s.id, 1),
         LAMBDA rs :
    With(ImportRecordWrite(rs.db, compute_hash(in.file, in.rules),
                           Len(rs.tx_ids), rs.tx_ids, rs.errors),
         LAMBDA w :
    ImportResult(w.ok, FALSE, Len(rs.tx_ids), w.id, rs.errors, w.db))))

\* ImportService.import_csv, run from call to return.
import_csv(d, in) ==
    With(ImportCheck(d, in), LAMBDA c :
         IF c.skip THEN ImportResult(TRUE, TRUE, c.count, c.existing, <<>>, d)
         ELSE ImportRun(c, in))

(***************************************************************************)
(* Inputs of the calls.                                                    *)
(***************************************************************************)
SeqsUpTo(S, n) == UNION {[1..k -> S] : k \in 0..n}

AmountInputs == {Num(100000), Num(-100000), Num(0), Num(4), Num(-8), BadAmount}
RefInputs  == {RefId(1), RefId(2), RefName("ASSET:Bank"), RefNone}
SplitInputs == [amount : AmountInputs, ref : RefInputs]
TagInputs  == {<<>>, <<"food">>, <<"food", BadTag>>}
CreateInputs ==
    [ledger_id : {DefaultLedger}, date : {Today},
     splits : SeqsUpTo(SplitInputs, MaxSplits), tags : TagInputs, necessary : {TRUE}]

\* The create() calls made next to imports: a balanced pair, an unbalanced
\* pair and a pair of sub-cent amounts, on the first two accounts.
PairInputs ==
    { [ledger_id |-> l, date |-> Today, tags |-> <<>>, necessary |-> TRUE,
       splits |-> << [amount |-> Num(a[1]), ref |-> RefId(1)],
                     [amount |-> Num(a[2]), ref |-> RefId(2)] >>] :
      l \in LedgerIds, a \in {<<100000, -100000>>, <<100000, 50000>>, <<4, -8>>} }

AccountNameInputs == {"ASSET:Bank", "Cash"}

RowTokens  == {"neg", "baddate"}
RuleInputs == {<<>>, <<"R_food">>}
ImportInputs ==
    [file : SeqsUpTo(RowTokens, MaxRows), rules : RuleInputs, ledger_id : LedgerIds,
     asset_account_name : {"ASSET:Bank"}, force : BOOLEAN]

(***************************************************************************)
(* State: db is the relational store, last the outcome of the call that    *)
(* returned last, proc the position and locals of each call in progress    *)
(* (used when calls overlap), mem the stores of the in-memory repositories.*)
(***************************************************************************)
Procs == {1, 2}

NoInput == [file |-> <<>>, rules |-> <<>>, ledger_id |-> None,
            asset_account_name |-> "", force |-> FALSE]
\* The arguments of a DjangoAccountsRepo.create call, and its caller.
AccountCall(op, name, account_type, parent, is_active, ledger_id) ==
    [op |-> op, name |-> name, account_type |-> account_type, parent |-> parent,
     is_active |-> is_active, ledger_id |-> ledger_id]
NoAccountCall == AccountCall("", "", "", None, TRUE, None)

Idle == [pc |-> "idle", in |-> NoInput, asset_acc |-> None, category_acc |-> None,
         idx |-> 0, tx_ids |-> <<>>, errors |-> <<>>, ok |-> TRUE, skipped |-> FALSE,
         created_count |-> 0, import_record |-> None, call |-> NoAccountCall,
         dups |-> {}, amount |-> 0, other_acc |-> None, todo |-> <<>>,
         balance |-> 0, err |-> "", username |-> "", then |-> ""]

NoCall == [op |-> "none", ok |-> TRUE, err |-> "", total |-> 0, tx |-> None,
           force |-> FALSE, skipped |-> FALSE, created_count |-> 0,
           import_record |-> None, errors |-> <<>>, account |-> None,
           listing |-> <<>>]

InBoundsRepo(d) ==
    /\ Len(d.Transaction) <= MaxRepoTxs
    /\ Len(d.Account) <= MaxRepoAccounts

InBounds(d) ==
    /\ Len(d.Transaction) <= MaxTransactions
    /\ Len(d.Account) <= MaxAccounts
    /\ d.importSeq <= MaxImportRuns

Init ==
    /\ db = EmptyDB
    /\ last = NoCall
    /\ proc = [p \in Procs |-> Idle]
    /\ mem = EmptyMem

(***************************************************************************)
(* Calls that commit more than once are taken one committed statement at   *)
(* a time: no view, service or repository of the project opens a           *)
(* transaction around a whole call (transaction.atomic() appears only in   *)
(* DjangoTransactionsRepo.create, around the ImportRecord insert and in    *)
(* _get_or_create_wallet_account) and the settings do not enable           *)
(* ATOMIC_REQUESTS, so other requests see and change the store between two *)
(* statements of a call.                                                   *)
(***************************************************************************)

\* The accounts of a set of rows in the order of their primary key, lowest
\* first.
Lowest(rows) == CHOOSE i \in rows : \A j \in rows : i <= j

\* Ledger.objects.get_or_create(username=...), the SELECT, made by a call
\* with locals loc: one row is the ledger of the call, which goes on at
\* `then`; no row leads to the INSERT; several rows raise
\* MultipleObjectsReturned.
LedgerGet(d, loc, username, then) ==
    LET rows == LedgerRows(d, username)
    IN  IF rows = {}
        THEN [loc EXCEPT !.pc = "ledger_insert", !.username = username, !.then = then]
        ELSE IF Cardinality(rows) = 1
        THEN [loc EXCEPT !.pc = then, !.in.ledger_id = Lowest(rows), !.username = ""]
        ELSE [loc EXCEPT !.pc = "ledger_raised", !.err = "MultipleObjectsReturned"]

\* The locals of a call after the INSERT of its get_or_create gave its
\* ledger the primary key ledger_id.
LedgerCreated(loc, ledger_id) ==
    [loc EXCEPT !.pc = loc.then, !.in.ledger_id = ledger_id, !.username = "",
                !.then = ""]

\* Ledger.objects.get_or_create(username=...), the INSERT: username is not
\* unique, so the row is written whatever other calls inserted since the
\* SELECT.
LedgerInsert(p) ==
    /\ proc[p].pc = "ledger_insert"
    /\ NextLedgerPk(db) <= MaxLedgerPk
    /\ db' = LedgerInsertRow(db, NextLedgerPk(db), proc[p].username)
    /\ proc' = [proc EXCEPT ![p] = IF proc[p].then = "idle" THEN Idle
                                   ELSE LedgerCreated(proc[p], NextLedgerPk(db))]
    /\ UNCHANGED <<last, mem>>

\* Ledger.objects.get_or_create for the ledger of the request, as the views
\* do before they call a service (views.py import_csv, budget_views,
\* dashboard_data_view): the SELECT.  A view that finds the row, or gets
\* MultipleObjectsReturned, writes no Ledger row.
LedgerGetOrCreate(p, username) ==
    /\ proc[p].pc = "idle"
    /\ LET loc == LedgerGet(db, Idle, username, "idle")
       IN  proc' = [proc EXCEPT ![p] = IF loc.pc = "ledger_insert" THEN loc ELSE Idle]
    /\ UNCHANGED <<db, last, mem>>

\* clear_imports.py and the management command clear_imports:
\* ImportRecord.objects.all().delete().  Primary keys are not handed out
\* again.
ClearImports ==
    /\ db' = [db EXCEPT !.ImportRecord = {}]
    /\ last' = [NoCall EXCEPT !.op = "clear_imports"]
    /\ UNCHANGED <<proc, mem>>

\* DjangoAccountsRepo.create, lines 85-91.  With a parent argument the
\* parent row is looked up first (lines 86-87), a statement of its own;
\* without one the first statement is the Ledger get_or_create (line 91).
\* call.op names the caller.
RepoCreateBegin(p, call) ==
    /\ proc[p].pc = "idle"
    /\ IF call.parent = None
       THEN /\ db' = LedgerByPk(db, call.ledger_id, "default")
            /\ proc' = [proc EXCEPT ![p] = [Idle EXCEPT !.pc = "acc_insert", !.call = call]]
       ELSE /\ db' = db
            /\ proc' = [proc EXCEPT ![p] =
                  [Idle EXCEPT !.pc = "acc_ledger",
                               !.call = [call EXCEPT !.parent =
                                            IF @ \in 1..Len(db.Account) THEN @ ELSE None]]]
    /\ UNCHANGED <<last, mem>>

\* DjangoAccountsRepo.create, line 91, after the lookup of the parent:
\* Ledger.objects.get_or_create(ledgerID=ledger_id).
RepoCreateLedger(p) ==
    /\ proc[p].pc = "acc_ledger"
    /\ db' = LedgerByPk(db, proc[p].call.ledger_id, "default")
    /\ proc' = [proc EXCEPT ![p].pc = "acc_insert"]
    /\ UNCHANGED <<last, mem>>

\* DjangoAccountsRepo.create, lines 93-99: Account.objects.create, and the
\* return to the caller.
AccountInsert(p) ==
    /\ proc[p].pc = "acc_insert"
    /\ LET c == proc[p].call
           r == AccountsRepo_create(db, c.name, c.account_type, c.parent, c.is_active,
                                    c.ledger_id)
       IN  /\ db' = r.db
           /\ last' = [NoCall EXCEPT !.op = c.op, !.account = r.id]
    /\ proc' = [proc EXCEPT ![p] = Idle]
    /\ UNCHANGED mem

\* DjangoAccountsRepo.create(name, account_type, ledger_id=...)
AccountCreate(p, name, ledger_id) ==
    RepoCreateBegin(p, AccountCall("account", name, detect_type_from_name(name), None,
                                   TRUE, ledger_id))

\* DjangoTransactionsRepo.create(ledger_id=, date=, description=, splits=, tags=):
\* the checks of lines 130-145 read no table and everything after them runs
\* inside transaction.atomic().
CreateTransaction(in) ==
    \E r \in {Repo_create(db, in)} :
        /\ db' = r.db
        /\ last' = [NoCall EXCEPT !.op = "create", !.ok = r.ok, !.err = r.err,
                                  !.total = r.total, !.tx = r.tx]
        /\ UNCHANGED <<proc, mem>>

(***************************************************************************)
(* ImportService.import_csv(fileobj, rules_fileobj, ledger_id,             *)
(* asset_account_name) with _force_delete_existing = in.force: the call of *)
(* process p, one committed statement at a time.  proc[p] holds the locals *)
(* of the call: in (the arguments), import_record (existing, later ir),    *)
(* asset_acc, category_acc, idx (the row of the loop), tx_ids              *)
(* (created_tx_ids), errors.                                               *)
(***************************************************************************)

\* Lines 128-147: the hash and ImportRecord.objects.filter(file_hash).first().
\* What the call does next depends on the row it read: return skipped,
\* delete the row, or go on.
ImpCall(p, in) ==
    /\ proc[p].pc = "idle"
    /\ \E c \in {ImportCheck(db, in)} :
        proc' = [proc EXCEPT ![p] =
              IF c.skip
              THEN [Idle EXCEPT !.pc = "done", !.in = in, !.skipped = TRUE,
                                !.created_count = c.count, !.import_record = c.existing]
              ELSE IF c.existing # None
              THEN [Idle EXCEPT !.pc = "delete", !.in = in, !.import_record = c.existing]
              ELSE [Idle EXCEPT !.pc = "ledger", !.in = in]]
    /\ UNCHANGED <<db, last, mem>>

\* Lines 142 / 150: existing.delete(), a DELETE by primary key.
ImpDelete(p) ==
    /\ proc[p].pc = "delete"
    /\ db' = [db EXCEPT !.ImportRecord = {r \in @ : r.id # proc[p].import_record}]
    /\ proc' = [proc EXCEPT ![p].pc = "ledger", ![p].import_record = None]
    /\ UNCHANGED <<last, mem>>

\* Lines 152-156: Ledger.objects.get_or_create(pk=ledger_id).
ImpLedger(p) ==
    /\ proc[p].pc = "ledger"
    /\ db' = LedgerByPk(db, proc[p].in.ledger_id, LedgerName(proc[p].in.ledger_id))
    /\ proc' = [proc EXCEPT ![p].pc = "asset_lookup"]
    /\ UNCHANGED <<last, mem>>

\* _ensure_account lines 90-98 for the asset account (line 192):
\* get_by_name and the comparison of ledgers.
ImpAssetLookup(p) ==
    /\ proc[p].pc = "asset_lookup"
    /\ LET acc == get_by_name(db, proc[p].in.asset_account_name)
       IN  proc' = [proc EXCEPT ![p] =
              IF acc # None /\ db.Account[acc].ledger = proc[p].in.ledger_id
              THEN [@ EXCEPT !.pc = "rows", !.asset_acc = acc, !.idx = 1]
              ELSE [@ EXCEPT !.pc = "asset_insert"]]
    /\ UNCHANGED <<db, last, mem>>

\* _ensure_account lines 101 / 104 for the asset account: accounts_repo.create.
\* Its Ledger.objects.get_or_create finds the row line 153 committed (no
\* statement deletes a Ledger), so Account.objects.create is its one write.
ImpAssetInsert(p) ==
    /\ proc[p].pc = "asset_insert"
    /\ \E r \in {AccountsRepo_create(db, proc[p].in.asset_account_name,
                                     detect_type_from_name(proc[p].in.asset_account_name),
                                     None, TRUE, proc[p].in.ledger_id)} :
        /\ db' = r.db
        /\ proc' = [proc EXCEPT ![p].pc = "rows", ![p].asset_acc = r.id, ![p].idx = 1]
    /\ UNCHANGED <<last, mem>>

\* The category of the row the loop is at (lines 233-256); the row's amount
\* parses.  rules_list was read at line 164, before the loop; no statement
\* writes the Rule table, so it is what the table holds now.
ImpRowCategory(p) ==
    LET row == RowOf(proc[p].in.file[proc[p].idx])
    IN  RowCategory(row.text, parse_amount(row.amount), load_rules(db, proc[p].in))

\* One turn of the loop, lines 194-258, up to the lookup of the category
\* account: a row without amount column or with an amount that does not
\* parse ends the turn with an error and touches no table; otherwise
\* _ensure_account looks the category account up (lines 90-98).
ImpRowLookup(p) ==
    /\ proc[p].pc = "rows"
    /\ proc[p].idx <= Len(proc[p].in.file)
    /\ LET row == RowOf(proc[p].in.file[proc[p].idx])
           acc == get_by_name(db, ImpRowCategory(p).name)
       IN  proc' = [proc EXCEPT ![p] =
              IF row.amount.kind = "nocol" \/ ~parse_amount_ok(row.amount)
              THEN [@ EXCEPT !.idx = @ + 1, !.errors = Append(@, proc[p].idx)]
              ELSE IF acc # None /\ db.Account[acc].ledger = proc[p].in.ledger_id
              THEN [@ EXCEPT !.pc = "row_create", !.category_acc = acc]
              ELSE [@ EXCEPT !.pc = "row_insert"]]
    /\ UNCHANGED <<db, last, mem>>

\* _ensure_account lines 101 / 104 for the category account.
ImpRowInsert(p) ==
    /\ proc[p].pc = "row_insert"
    /\ \E r \in {AccountsRepo_create(db, ImpRowCategory(p).name, ImpRowCategory(p).type,
                                     None, TRUE, proc[p].in.ledger_id)} :
        /\ db' = r.db
        /\ proc' = [proc EXCEPT ![p].pc = "row_create", ![p].category_acc = r.id]
    /\ UNCHANGED <<last, mem>>

\* Lines 260-292: the splits, tx_repo.create, and the bookkeeping of the
\* turn; an exception of create becomes the error of the row.
ImpRowCreate(p) ==
    /\ proc[p].pc = "row_create"
    /\ LET row  == RowOf(proc[p].in.file[proc[p].idx])
           call == [ledger_id |-> proc[p].in.ledger_id, date |-> row.date,
                    splits |-> RowSplits(parse_amount(row.amount), proc[p].asset_acc,
                                         proc[p].category_acc),
                    tags |-> row_tags(row.tags),
                    necessary |-> ImpRowCategory(p).necessary]
       IN  \E r \in {Repo_create(db, call)} :
              /\ db' = r.db
              /\ proc' = [proc EXCEPT
                    ![p].pc = "rows",
                    ![p].idx = @ + 1,
                    ![p].category_acc = None,
                    ![p].tx_ids = IF r.ok THEN Append(@, r.tx) ELSE @,
                    ![p].errors = IF r.ok THEN @ ELSE Append(@, proc[p].idx)]
    /\ UNCHANGED <<last, mem>>

\* Lines 294-301: the ImportRecord insert; a duplicate file_hash raises
\* IntegrityError out of import_csv.
ImpRecord(p) ==
    /\ proc[p].pc = "rows"
    /\ proc[p].idx > Len(proc[p].in.file)
    /\ \E w \in {ImportRecordWrite(db, compute_hash(proc[p].in.file, proc[p].in.rules),
                                    Len(proc[p].tx_ids), proc[p].tx_ids,
                                    proc[p].errors)} :
        /\ db' = w.db
        /\ proc' = [proc EXCEPT ![p].pc = "done", ![p].ok = w.ok,
                                ![p].created_count = Len(proc[p].tx_ids),
                                ![p].import_record = w.id]
    /\ UNCHANGED <<last, mem>>

\* Lines 146 / 303: the call returns its CSVImportResult, or raises.
ImpReturn(p) ==
    /\ proc[p].pc = "done"
    /\ last' = [NoCall EXCEPT !.op = "import", !.ok = proc[p].ok,
                              !.force = proc[p].in.force,
                              !.skipped = proc[p].skipped,
                              !.created_count = proc[p].created_count,
                              !.import_record = proc[p].import_record,
                              !.errors = proc[p].errors]
    /\ proc' = [proc EXCEPT ![p] = Idle]
    /\ UNCHANGED <<db, mem>>

\* The steps of the import_csv call of process p after its first.
ImportBody(p) ==
    \/ ImpDelete(p)
    \/ ImpLedger(p)
    \/ ImpAssetLookup(p)
    \/ ImpAssetInsert(p)
    \/ ImpRowLookup(p)
    \/ ImpRowInsert(p)
    \/ ImpRowCreate(p)
    \/ ImpRecord(p)

\* The process whose calls are followed statement by statement when one
\* call at a time is made next to the requests of others.
Caller == 1

\* Repository calls alone.
NextTx ==
    \/ \E n \in AccountNameInputs :
          AccountCreate(Caller, n, DefaultLedger) /\ Len(db.Account) < MaxRepoAccounts
    \/ AccountInsert(Caller)
    \/ \E in \in CreateInputs : CreateTransaction(in) /\ InBoundsRepo(db')

SpecTx == Init /\ [][NextTx]_vars

\* The import_csv calls that are made: those without a rules file (rules
\* are followed in SpecRows).
CallInputs == {in \in ImportInputs : in.rules = <<>>}

\* The requests of Caller, one at a time: the view's get-or-create of the
\* user's ledger (views.py lines 49-52) and imports into the ledgers the
\* store holds (the view passes the primary key of the user's ledger), next
\* to the requests of others: create() calls and clear_imports.
Next ==
    \/ \E in \in CallInputs :
          /\ in.ledger_id \in LedgerPks(db)
          /\ db.importSeq < MaxImportRuns
          /\ ImpCall(Caller, in)
    \/ ImpDelete(Caller)
    \/ ImpLedger(Caller)
    \/ ImpAssetLookup(Caller)
    \/ ImpAssetInsert(Caller) /\ InBounds(db')
    \/ ImpRowLookup(Caller)
    \/ ImpRowInsert(Caller) /\ InBounds(db')
    \/ ImpRowCreate(Caller) /\ InBounds(db')
    \/ ImpRecord(Caller)
    \/ ImpReturn(Caller)
    \/ \E in \in PairInputs : CreateTransaction(in) /\ InBounds(db')
    \/ \E username \in Usernames : LedgerGetOrCreate(Caller, username)
    \/ LedgerInsert(Caller)
    \/ ClearImports

Spec == Init /\ [][Next]_vars

(***************************************************************************)
(* Overlapping import_csv calls: each process makes one call.              *)
(***************************************************************************)
ConcImportInputs ==
    [file : {<<"neg">>, <<"baddate">>}, rules : {<<>>}, ledger_id : LedgerIds,
     asset_account_name : {"ASSET:Bank"}, force : BOOLEAN]

NextConc ==
    \/ \E p \in Procs, in \in ConcImportInputs : ImpCall(p, in)
    \/ \E p \in Procs : ImportBody(p)

SpecConc == Init /\ [][NextConc]_vars

(***************************************************************************)
(* Overlapping get-or-create of an account: the callers of _ensure_account *)
(* (imports, for their asset account) and of                               *)
(* WalletLedgerService._get_or_create_wallet_account, one store statement  *)
(* at a time.  proc[p].asset_acc is the account the caller obtained.       *)
(***************************************************************************)
MaxRaceAccounts == 3   \* Account rows, overlapping get-or-create (SpecAcc)

WalletName == "Digital Wallet"

AccCall(n, L) == [NoInput EXCEPT !.ledger_id = L, !.asset_account_name = n]

\* _ensure_account lines 90-98: get_by_name and the ledger comparison.
\* import_csv committed the ledger row before (line 153).
EnsLookup(p, L) ==
    /\ proc[p].pc = "idle"
    /\ L \in LedgerPks(db)
    /\ LET acc == get_by_name(db, "ASSET:Bank")
       IN  proc' = [proc EXCEPT ![p] =
               IF acc # None /\ db.Account[acc].ledger = L
               THEN [Idle EXCEPT !.pc = "acc_done", !.in = AccCall("ASSET:Bank", L),
                                 !.asset_acc = acc]
               ELSE [Idle EXCEPT !.pc = "ens_create", !.in = AccCall("ASSET:Bank", L)]]
    /\ UNCHANGED <<db, last, mem>>

\* _ensure_account lines 101 / 104: accounts_repo.create; the ledger row
\* exists, so Account.objects.create is its one write.
EnsInsert(p) ==
    /\ proc[p].pc = "ens_create"
    /\ Len(db.Account) < MaxRaceAccounts
    /\ \E r \in {AccountsRepo_create(db, proc[p].in.asset_account_name,
                                     detect_type_from_name(proc[p].in.asset_account_name),
                                     None, TRUE, proc[p].in.ledger_id)} :
        /\ db' = r.db
        /\ proc' = [proc EXCEPT ![p].pc = "acc_done", ![p].asset_acc = r.id]
    /\ UNCHANGED <<last, mem>>

\* WalletLedgerService.__init__ lines 26-29: Ledger.objects.get_or_create for
\* the ledger of the user, the SELECT.  MultipleObjectsReturned is caught at
\* line 40 and the constructor raises ValueError.
WalLedger(p, username) ==
    /\ proc[p].pc = "idle"
    /\ LET loc == LedgerGet(db, [Idle EXCEPT !.in = AccCall(WalletName, None)],
                            username, "wal_get")
       IN  proc' = [proc EXCEPT ![p] = IF loc.pc = "ledger_raised" THEN Idle ELSE loc]
    /\ UNCHANGED <<db, last, mem>>

\* _get_or_create_wallet_account lines 67-75, the lookup of
\* Account.objects.get_or_create: one row is returned; no row leads to the
\* insert; several rows raise MultipleObjectsReturned, which leaves the
\* atomic block and is handled at line 87.
WalGet(p) ==
    /\ proc[p].pc = "wal_get"
    /\ LET rows == AccountsNamed(db, WalletName, proc[p].in.ledger_id)
       IN  proc' = [proc EXCEPT ![p] =
              IF rows = {} THEN [@ EXCEPT !.pc = "wal_create"]
              ELSE IF Cardinality(rows) = 1
              THEN [@ EXCEPT !.pc = "acc_done", !.asset_acc = Lowest(rows)]
              ELSE [@ EXCEPT !.pc = "wal_first"]]
    /\ UNCHANGED <<db, last, mem>>

\* Lines 90-91: accounts.first() of the rows ordered by accountID, the row
\* the caller keeps.  (accounts.count() of line 92 is read for the message
\* only.)
WalFirst(p) ==
    /\ proc[p].pc = "wal_first"
    /\ LET rows == AccountsNamed(db, WalletName, proc[p].in.ledger_id)
       IN  proc' = [proc EXCEPT ![p].pc = "wal_rest",
                                ![p].asset_acc = IF rows = {} THEN None ELSE Lowest(rows)]
    /\ UNCHANGED <<db, last, mem>>

\* Line 93: accounts[1:], the rows after the first one of the listing as it
\* is when the loop starts.
WalRest(p) ==
    /\ proc[p].pc = "wal_rest"
    /\ LET rows == AccountsNamed(db, WalletName, proc[p].in.ledger_id)
           rest == IF rows = {} THEN {} ELSE rows \ {Lowest(rows)}
       IN  proc' = [proc EXCEPT ![p].dups = rest,
                                ![p].pc = IF rest = {} THEN "acc_done" ELSE "wal_dups"]
    /\ UNCHANGED <<db, last, mem>>

\* Lines 94-96: a.is_active = False; a.save() for the next row of the loop,
\* in the order of accountID.
WalDeactivate(p) ==
    /\ proc[p].pc = "wal_dups"
    /\ LET a == Lowest(proc[p].dups)
       IN  /\ db' = [db EXCEPT !.Account[a].is_active = FALSE]
           /\ proc' = [proc EXCEPT ![p].dups = @ \ {a},
                                   ![p].pc = IF proc[p].dups = {a} THEN "acc_done"
                                             ELSE "wal_dups"]
    /\ UNCHANGED <<last, mem>>

\* The insert of Account.objects.get_or_create: no constraint of the Account
\* table can fail it.
WalInsert(p) ==
    /\ proc[p].pc = "wal_create"
    /\ Len(db.Account) < MaxRaceAccounts
    /\ db' = [db EXCEPT !.Account =
                 Append(@, [ledger |-> proc[p].in.ledger_id, name |-> WalletName,
                            account_type |-> "ASSET", parent |-> None,
                            is_active |-> TRUE])]
    /\ proc' = [proc EXCEPT ![p].pc = "acc_done", ![p].asset_acc = Len(db.Account) + 1]
    /\ UNCHANGED <<last, mem>>

\* The caller returns with its account.
AccReturn(p) ==
    /\ proc[p].pc = "acc_done"
    /\ proc' = [proc EXCEPT ![p] = Idle]
    /\ UNCHANGED <<db, last, mem>>

\* The ledgers of the store in the order of ledgerID.
RECURSIVE SortedSeq(_)
SortedSeq(S) == IF S = {} THEN <<>> ELSE <<Lowest(S)>> \o SortedSeq(S \ {Lowest(S)})

\* The management command fix_wallet_duplicates (without --dry-run), line
\* 21: Ledger.objects.all().order_by('ledgerID'), read when the loop starts.
FixStart(p) ==
    /\ proc[p].pc = "idle"
    /\ proc' = [proc EXCEPT ![p] = [Idle EXCEPT !.pc = "fix_ledger",
                                                !.todo = SortedSeq(LedgerPks(db))]]
    /\ UNCHANGED <<db, last, mem>>

\* Lines 24-29, the next ledger of the loop: its 'Digital Wallet' rows in
\* the order of accountID; with two or more, all but the first are to be
\* deactivated.  After the last ledger the command ends (line 45).
FixLedger(p) ==
    /\ proc[p].pc = "fix_ledger"
    /\ IF proc[p].todo = <<>>
       THEN proc' = [proc EXCEPT ![p] = Idle]
       ELSE LET accounts == AccountsNamed(db, WalletName, Head(proc[p].todo))
            IN  proc' = [proc EXCEPT
                   ![p].todo = Tail(@),
                   ![p].dups = IF Cardinality(accounts) <= 1 THEN {}
                               ELSE accounts \ {Lowest(accounts)},
                   ![p].pc   = IF Cardinality(accounts) <= 1 THEN "fix_ledger"
                               ELSE "fix_dups"]
    /\ UNCHANGED <<db, last, mem>>

\* Lines 38-41: a.is_active = False; a.save() for the next duplicate.
FixDeactivate(p) ==
    /\ proc[p].pc = "fix_dups"
    /\ LET a == Lowest(proc[p].dups)
       IN  /\ db' = [db EXCEPT !.Account[a].is_active = FALSE]
           /\ proc' = [proc EXCEPT ![p].dups = @ \ {a},
                                   ![p].pc = IF proc[p].dups = {a} THEN "fix_ledger"
                                             ELSE "fix_dups"]
    /\ UNCHANGED <<last, mem>>

NextAcc ==
    \/ \E p \in Procs, username \in Usernames : LedgerGetOrCreate(p, username)
    \/ \E p \in Procs : LedgerInsert(p)
    \/ \E p \in Procs, L \in LedgerIds : EnsLookup(p, L)
    \/ \E p \in Procs : EnsInsert(p)
    \/ \E p \in Procs, username \in Usernames : WalLedger(p, username)
    \/ \E p \in Procs : WalGet(p)
    \/ \E p \in Procs : WalFirst(p)
    \/ \E p \in Procs : WalRest(p)
    \/ \E p \in Procs : WalDeactivate(p)
    \/ \E p \in Procs : WalInsert(p)
    \/ \E p \in Procs : AccReturn(p)
    \/ \E p \in Procs : FixStart(p)
    \/ \E p \in Procs : FixLedger(p)
    \/ \E p \in Procs : FixDeactivate(p)

SpecAcc == Init /\ [][NextAcc]_vars

(***************************************************************************)
(* backend/services/account_service.py: AccountService over                *)
(* DjangoAccountsRepo.                                                     *)
(***************************************************************************)
MaxChartAccounts == 3   \* Account rows, account operations (SpecChart)

AccountTypes == {"ASSET", "LIABILITY", "EQUITY", "INCOME", "EXPENSE"}

AccFail(d, e) == [ok |-> FALSE, err |-> e, id |-> None, db |-> d]

\* A faulty variant that hands everything to the repository.
create_account_unchecked(d, name, account_type, parent, is_active) ==
    LET r == AccountsRepo_create(d, name, account_type, parent, is_active, DefaultLedger)
    IN  [ok |-> TRUE, err |-> "", id |-> r.id, db |-> r.db]

\* AccountService.create_account.  The module does not define the name
\* ValidationError, so each `raise ValidationError(...)` raises NameError.
\* repository.create is called without ledger_id: the default ledger.
create_account(d, name, account_type, parent, is_active) ==
    IF name = "" THEN AccFail(d, "NameError")
    ELSE IF account_type \notin AccountTypes THEN AccFail(d, "NameError")
    ELSE LET r == AccountsRepo_create(d, name, account_type, parent, is_active,
                                      DefaultLedger)
         IN  [ok |-> TRUE, err |-> "", id |-> r.id, db |-> r.db]

\* A faulty variant whose repository saves the changed row.
update_account_saved(d, account_id, name, account_type, parent, is_active) ==
    IF account_id \notin 1..Len(d.Account) THEN [ok |-> TRUE, err |-> "", id |-> None, db |-> d]
    ELSE [ok |-> TRUE, err |-> "", id |-> account_id,
          db |-> [d EXCEPT !.Account[account_id] =
                     [@ EXCEPT !.name = name, !.account_type = account_type,
                               !.parent = parent, !.is_active = is_active]]]

\* AccountService.update_account: None when the account does not exist.
\* Otherwise the fetched object is changed in memory: assigning a primary
\* key to the foreign key `parent` raises ValueError; with parent None the
\* call reaches self.repository.update, which DjangoAccountsRepo does not
\* have (AttributeError).  No statement writes the row.
update_account(d, account_id, name, account_type, parent, is_active) ==
    IF account_id \notin 1..Len(d.Account) THEN [ok |-> TRUE, err |-> "", id |-> None, db |-> d]
    ELSE IF parent # None THEN AccFail(d, "ValueError")
    ELSE AccFail(d, "AttributeError")

ChartNames   == {"", "Cash"}
ChartTypes   == {"ASSET", "EQUITY", "iNVALID"}
ChartParents == {None, 1, 2}
ChartIds     == 1..MaxChartAccounts

\* DjangoAccountsRepo.create(name, account_type, parent, is_active)
RepoCreateAccount(p, parent) ==
    /\ Len(db.Account) < MaxChartAccounts
    /\ RepoCreateBegin(p, AccountCall("account", "Cash", "ASSET", parent, TRUE,
                                      DefaultLedger))

\* AccountService.create_account(name, account_type, parent, is_active): a
\* call that fails validation returns at once, any other goes on into
\* DjangoAccountsRepo.create.
ServiceCreate(p, name, account_type, parent, is_active) ==
    /\ Len(db.Account) < MaxChartAccounts
    /\ IF create_account(db, name, account_type, parent, is_active).ok
       THEN RepoCreateBegin(p, AccountCall("create_account", name, account_type, parent,
                                           is_active, DefaultLedger))
       ELSE /\ proc[p].pc = "idle"
            /\ last' = [NoCall EXCEPT
                           !.op = "create_account", !.ok = FALSE,
                           !.err = create_account(db, name, account_type, parent,
                                                  is_active).err]
            /\ UNCHANGED <<db, proc, mem>>

\* AccountService.update_account(account_id, name, account_type, parent, is_active)
ServiceUpdate(account_id, name, account_type, parent, is_active) ==
    /\ \E r \in {update_account(db, account_id, name, account_type, parent, is_active)} :
        /\ db' = r.db
        /\ last' = [NoCall EXCEPT !.op = "update_account", !.ok = r.ok, !.err = r.err,
                                  !.account = r.id]
    /\ UNCHANGED <<proc, mem>>

NextChart ==
    \/ \E parent \in ChartParents : RepoCreateAccount(Caller, parent)
    \/ \E name \in ChartNames, t \in ChartTypes, parent \in ChartParents,
          a \in BOOLEAN : ServiceCreate(Caller, name, t, parent, a)
    \/ RepoCreateLedger(Caller)
    \/ AccountInsert(Caller)
    \/ \E id \in ChartIds, t \in ChartTypes, parent \in ChartParents, a \in BOOLEAN :
          ServiceUpdate(id, "Cash", t, parent, a)

SpecChart == Init /\ [][NextChart]_vars

(***************************************************************************)
(* _match_rule on its own: a call with a text and a rules list, then its   *)
(* return.                                                                 *)
(***************************************************************************)
MaxRules == 3   \* rules in a rules list handed to _match_rule

MatchTexts == {"Grocery Store", "Salary", "Imported Transaction"}
MatchRules == {"R_food", "R_shop", "R_re", "R_badre", "R_nore", "R_none"}

MatchCall(text, rules) ==
    [op |-> "match_call", text |-> text, rules |-> rules, result |-> None]

InitMatch ==
    /\ db = EmptyDB
    /\ proc = [p \in Procs |-> Idle]
    /\ mem = EmptyMem
    /\ last \in {MatchCall(t, rs) : t \in MatchTexts, rs \in SeqsUpTo(MatchRules, MaxRules)}

\* matched_rule = _match_rule(combined_text, rules_list)
MatchRule ==
    /\ last.op = "match_call"
    /\ last' = [last EXCEPT !.op = "match_return",
                            !.result = match_rule(last.text, SeqMap(RuleOf, last.rules))]
    /\ UNCHANGED <<db, proc, mem>>

NextMatch == MatchRule

SpecMatch == InitMatch /\ [][NextMatch]_vars

(***************************************************************************)
(* Imports of files whose rows fail in every way a row can fail.  The      *)
(* columns of a CSV file are those of its header, so either every row      *)
(* lacks the amount column or none does.                                   *)
(***************************************************************************)
MaxFileRows == 3   \* data rows of an imported CSV file (SpecRows)
MaxRowRuns  == 1   \* ImportRecord primary keys handed out (SpecRows)

CellTokens == {"pos", "zero", "paren", "badamt", "baddate"}
RowImportFiles ==
    SeqsUpTo(CellTokens, MaxFileRows) \cup SeqsUpTo({"nocol"}, MaxFileRows)
RowImportInputs ==
    [file : RowImportFiles, rules : RuleInputs, ledger_id : {DefaultLedger},
     asset_account_name : {"ASSET:Bank"}, force : {FALSE}]

\* One call is followed: no ImportRecord exists at its check, so
\* existing.delete() is not reached.
NextRows ==
    \/ \E in \in RowImportInputs : ImpCall(Caller, in) /\ db.importSeq < MaxRowRuns
    \/ ImpLedger(Caller)
    \/ ImpAssetLookup(Caller)
    \/ ImpAssetInsert(Caller)
    \/ ImpRowLookup(Caller)
    \/ ImpRowInsert(Caller)
    \/ ImpRowCreate(Caller)
    \/ ImpRecord(Caller)
    \/ ImpReturn(Caller)

\* The Rule table when the import is called: no code of the project writes
\* it, its rows are loaded from outside (fixtures, the database shell).
RuleTables == {<<>>, <<RuleOf("R_shop")>>}

InitRows ==
    /\ db \in {[EmptyDB EXCEPT !.Rule = rules] : rules \in RuleTables}
    /\ last = NoCall
    /\ proc = [p \in Procs |-> Idle]
    /\ mem = EmptyMem

SpecRows == InitRows /\ [][NextRows]_vars

(***************************************************************************)
(* Listing transactions: DjangoTransactionsRepo.list and the in-memory     *)
(* repositories (InMemoryAccountsRepo, InMemoryTransactionsRepo), called   *)
(* without filters.                                                        *)
(***************************************************************************)
MaxListTxs == 3   \* transactions per repository (SpecList)

ListDates == {1, 2}

\* InMemoryAccountsRepo.create
Mem_account_create(m, name, type, ledger_id) ==
    [m EXCEPT !.accounts = Append(@, [id |-> Len(@) + 1, name |-> name, type |-> type,
                                      ledger_id |-> ledger_id])]

\* InMemoryAccountsRepo.get_by_name: the first account of that name, or None.
Mem_get_by_name(m, name) ==
    LET hits == {i \in 1..Len(m.accounts) : m.accounts[i].name = name}
    IN  IF hits = {} THEN None ELSE CHOOSE i \in hits : \A j \in hits : i <= j

\* The loop of InMemoryTransactionsRepo.create over the splits: the error of
\* the first split that raises, "" when none does.
RECURSIVE MemSplitError(_, _, _)
MemSplitError(m, splits, k) ==
    IF k > Len(splits) THEN ""
    ELSE IF ~normalize_ok(splits[k].amount) THEN "InvalidAmount"
    ELSE IF splits[k].ref.kind = "none" THEN "NoAccountRef"
    ELSE IF /\ splits[k].ref.kind = "account_name"
            /\ Mem_get_by_name(m, splits[k].ref.name) = None
    THEN "AccountNameNotFound"
    ELSE MemSplitError(m, splits, k + 1)

\* InMemoryTransactionsRepo.create
Mem_create(m, in) ==
    IF Len(in.splits) = 0 THEN [ok |-> FALSE, err |-> "NoSplits", tx |-> None, mem |-> m]
    ELSE IF MemSplitError(m, in.splits, 1) # ""
    THEN [ok |-> FALSE, err |-> MemSplitError(m, in.splits, 1), tx |-> None, mem |-> m]
    ELSE IF SumSeq(SeqMap(LAMBDA s : normalize_amount(s.amount), in.splits)) # 0
    THEN [ok |-> FALSE, err |-> "NotBalanced", tx |-> None, mem |-> m]
    ELSE [ok |-> TRUE, err |-> "", tx |-> Len(m.txs) + 1,
          mem |-> [m EXCEPT !.txs = Append(@, [id |-> Len(@) + 1, date |-> in.date,
                                               ledger_id |-> in.ledger_id])]]

\* sorted(results, key=lambda r: r.date, reverse=True): the sort is stable,
\* also with reverse=True, so entries of equal date keep their order.
\* StableInsert puts x behind every entry whose date is not earlier.
RECURSIVE StableInsert(_, _)
StableInsert(s, x) ==
    IF s = <<>> THEN <<x>>
    ELSE IF Head(s).date >= x.date THEN <<Head(s)>> \o StableInsert(Tail(s), x)
    ELSE <<x>> \o s

RECURSIVE SortedByDateReverse(_)
SortedByDateReverse(s) ==
    IF s = <<>> THEN <<>>
    ELSE StableInsert(SortedByDateReverse(SubSeq(s, 1, Len(s) - 1)), s[Len(s)])

\* InMemoryTransactionsRepo.list(): _store.values() in insertion order, sorted.
Mem_list(m) ==
    SortedByDateReverse([i \in 1..Len(m.txs) |-> [id |-> m.txs[i].id,
                                                  date |-> m.txs[i].date]])

\* DjangoTransactionsRepo.list(): ORDER BY date DESC and nothing else; the
\* order of rows of equal date is whatever the database returns.
Django_listings(d) ==
    {l \in [1..Cardinality(TxIds(d)) -> [id : TxIds(d), date : ListDates]] :
        /\ \A i \in TxIds(d) : \E k \in 1..Len(l) : l[k].id = i
        /\ \A k \in 1..Len(l) : l[k].date = d.Transaction[l[k].id].date
        /\ \A k \in 1..(Len(l) - 1) : l[k].date >= l[k + 1].date}

ListCreateInputs ==
    { [ledger_id |-> DefaultLedger, date |-> dt, tags |-> <<>>, necessary |-> TRUE,
       splits |-> << [amount |-> Num(100000), ref |-> RefId(1)],
                     [amount |-> Num(a), ref |-> RefId(1)] >>] :
      dt \in ListDates, a \in {-100000, 50000} }

\* InMemoryAccountsRepo.create(name, type, ledger_id)
MemAccountCreate ==
    /\ Len(mem.accounts) < 1
    /\ mem' = Mem_account_create(mem, "Cash", "ASSET", DefaultLedger)
    /\ last' = [NoCall EXCEPT !.op = "mem_account", !.account = Len(mem.accounts) + 1]
    /\ UNCHANGED <<db, proc>>

\* InMemoryTransactionsRepo.create(ledger_id=, date=, description=, splits=)
MemCreateTransaction(in) ==
    /\ Len(mem.txs) < MaxListTxs
    /\ \E r \in {Mem_create(mem, in)} :
        /\ mem' = r.mem
        /\ last' = [NoCall EXCEPT !.op = "mem_create", !.ok = r.ok, !.err = r.err,
                                  !.tx = r.tx]
    /\ UNCHANGED <<db, proc>>

\* InMemoryTransactionsRepo.list()
MemList ==
    /\ last' = [NoCall EXCEPT !.op = "mem_list", !.listing = Mem_list(mem)]
    /\ UNCHANGED <<db, proc, mem>>

\* DjangoTransactionsRepo.list()
DjangoList ==
    /\ \E l \in Django_listings(db) :
          last' = [NoCall EXCEPT !.op = "list", !.listing = l]
    /\ UNCHANGED <<db, proc, mem>>

NextList ==
    \/ AccountCreate(Caller, "Cash", DefaultLedger) /\ Len(db.Account) < 1
    \/ AccountInsert(Caller)
    \/ \E in \in ListCreateInputs :
          CreateTransaction(in) /\ Len(db.Transaction) < MaxListTxs
    \/ DjangoList
    \/ MemAccountCreate
    \/ \E in \in ListCreateInputs : MemCreateTransaction(in)
    \/ MemList

SpecList == Init /\ [][NextList]_vars

\* The exception class behind each error of DjangoTransactionsRepo.create:
\* every `raise` of create and _normalize_amount raises ValidationError
\* (repos.py lines 117, 131, 138, 145, 151, 167, 171, 173); the module defines
\* NotFoundError but never raises it; a NULL date or a tag the table cannot
\* store is the database's IntegrityError.
ErrorClass(err) ==
    IF err = "" THEN "none"
    ELSE IF err \in {"NoSplits", "InvalidAmount", "NotBalanced", "LedgerNotFound",
                     "AccountIdNotFound", "AccountNameNotFound", "NoAccountRef"}
    THEN "ValidationError"
    ELSE "IntegrityError"

(***************************************************************************)
(* The entry points that write Transaction and Split rows outside the      *)
(* repository: WalletLedgerService.add_funds, spend_funds, transfer_funds  *)
(* and the view create_double_entry_transaction, one store statement at a  *)
(* time.  None of their statements runs inside transaction.atomic() and    *)
(* the project does not set ATOMIC_REQUESTS, so each statement commits on  *)
(* its own and the store between two steps is what another connection      *)
(* reads.  The constructor of the service is WalLedger .. WalInsert above. *)
(* The rows these calls write to the legacy Wallet and WalletTransaction   *)
(* tables are not part of the store.                                       *)
(***************************************************************************)
MaxFundsTxs      == 2   \* Transaction primary keys handed out (SpecFunds)
MaxFundsAccounts == 4   \* Account rows (SpecFunds)

FundingName     == "Wallet Funding"
FundsUsers      == {"alice"}      \* the users of the service
FundsAmounts    == {1000, 2550}   \* add_funds: the amount argument, in cents
SpendAmounts    == {0, 1000}      \* spend_funds: the amount argument, in cents
SpendCategories == {"Food"}       \* spend_funds: the category argument
TransferAmounts == {1000}         \* transfer_funds: the amount argument, in cents

\* spend_funds line 190: f"Wallet - {category}".
ExpenseName(category) == "Wallet - " \o category

\* The locals of a method call on a constructed service: proc[p].call is the
\* method and the arguments of its Account get_or_create, proc[p].amount the
\* amount argument; self.ledger and self.wallet_account (proc[p].in.ledger_id,
\* proc[p].asset_acc) were set by the constructor.
MethodCall(p, pc, method, name, account_type, amount) ==
    [proc[p] EXCEPT !.pc = pc, !.amount = amount,
                    !.call = AccountCall(method, name, account_type, None, TRUE,
                                         proc[p].in.ledger_id)]

\* The call ends with an exception: nothing is rolled back.
Raised(loc, err) == [loc EXCEPT !.pc = "funds_failed", !.ok = FALSE, !.err = err]

\* The lookup of Account.objects.get_or_create(ledger=self.ledger, name=...)
\* of add_funds (lines 131-138) and spend_funds (lines 188-195): the row when
\* there is one, the insert next when there is none, MultipleObjectsReturned
\* out of the method when there are several.
AccountGet(loc) ==
    LET rows == AccountsNamed(db, loc.call.name, loc.call.ledger_id)
    IN  IF rows = {} THEN [loc EXCEPT !.pc = "funds_account"]
        ELSE IF Cardinality(rows) = 1
        THEN [loc EXCEPT !.pc = "funds_tx", !.other_acc = Lowest(rows)]
        ELSE Raised(loc, "MultipleObjectsReturned")

\* add_funds lines 131-138, the lookup of get_or_create for the income
\* account.
FundsIncomeGet(p, amount) ==
    /\ proc[p].pc = "acc_done"
    /\ proc[p].in.asset_account_name = WalletName
    /\ proc' = [proc EXCEPT ![p] =
                  AccountGet(MethodCall(p, "acc_done", "add_funds", FundingName,
                                        "INCOME", amount))]
    /\ UNCHANGED <<db, last, mem>>

\* add_funds lines 131-138 / spend_funds lines 188-195, the insert of
\* get_or_create with its defaults.
FundsAccountInsert(p) ==
    /\ proc[p].pc = "funds_account"
    /\ Len(db.Account) < MaxFundsAccounts
    /\ db' = [db EXCEPT !.Account =
                 Append(@, [ledger |-> proc[p].call.ledger_id,
                            name |-> proc[p].call.name,
                            account_type |-> proc[p].call.account_type,
                            parent |-> None, is_active |-> TRUE])]
    /\ proc' = [proc EXCEPT ![p].pc = "funds_tx",
                            ![p].other_acc = Len(db.Account) + 1]
    /\ UNCHANGED <<last, mem>>

\* LedgerTransaction.objects.create(ledger=self.ledger, date=today,
\* necessary=False): add_funds lines 141-146, spend_funds lines 198-203.
FundsTransaction(p) ==
    /\ proc[p].pc = "funds_tx"
    /\ Len(db.Transaction) < MaxFundsTxs
    /\ db' = [db EXCEPT !.Transaction =
                 Append(@, [ledger |-> proc[p].in.ledger_id, date |-> Today,
                            necessary |-> FALSE])]
    /\ proc' = [proc EXCEPT ![p].pc = "funds_split1",
                            ![p].tx_ids = <<Len(db.Transaction) + 1>>]
    /\ UNCHANGED <<last, mem>>

\* Split.objects.create(transaction, account, amount), amount a float.
SplitCreate(d, tx, account, cents) ==
    [d EXCEPT !.Split = Append(@, [transaction |-> tx, account |-> account,
                                   amount |-> ToFloat(cents)])]

\* The first split of the call.  add_funds lines 150-154: the wallet
\* account, +amount.  spend_funds lines 207-211: the expense account,
\* +amount.  transfer_funds lines 381-385: the wallet account, -amount.
FundsSplitFirst(p) ==
    /\ proc[p].pc = "funds_split1"
    /\ db' = SplitCreate(db, proc[p].tx_ids[1],
                         IF proc[p].call.op = "spend_funds" THEN proc[p].other_acc
                         ELSE proc[p].asset_acc,
                         IF proc[p].call.op = "transfer_funds" THEN 0 - proc[p].amount
                         ELSE proc[p].amount)
    /\ proc' = [proc EXCEPT ![p].pc = "funds_split2"]
    /\ UNCHANGED <<last, mem>>

\* The second split of the call.  add_funds lines 157-161: the income
\* account, -amount.  spend_funds lines 214-218: the wallet account,
\* -amount.  transfer_funds lines 388-392: the target account, +amount.
FundsSplitSecond(p) ==
    /\ proc[p].pc = "funds_split2"
    /\ db' = SplitCreate(db, proc[p].tx_ids[1],
                         IF proc[p].call.op = "spend_funds" THEN proc[p].asset_acc
                         ELSE proc[p].other_acc,
                         IF proc[p].call.op = "transfer_funds" THEN proc[p].amount
                         ELSE 0 - proc[p].amount)
    /\ proc' = [proc EXCEPT ![p].pc = "funds_done"]
    /\ UNCHANGED <<last, mem>>

\* The method returns its ledger transaction proc[p].tx_ids[1] (add_funds
\* lines 175-179, spend_funds lines 231-235, transfer_funds lines 397-403),
\* or its exception proc[p].err reaches the caller; the request is over.
FundsReturn(p) ==
    /\ proc[p].pc \in {"funds_done", "funds_failed"}
    /\ proc' = [proc EXCEPT ![p] = Idle]
    /\ UNCHANGED <<db, last, mem>>

\* get_balance line 114: the transactions of self.ledger, read when the loop
\* of line 118 starts.
BalanceList(p) ==
    /\ proc[p].pc = "bal_list"
    /\ proc' = [proc EXCEPT
          ![p].pc = "bal_tx", ![p].balance = 0,
          ![p].todo = SortedSeq({tx \in TxIds(db) :
                                    db.Transaction[tx].ledger = proc[p].in.ledger_id})]
    /\ UNCHANGED <<db, last, mem>>

\* get_balance lines 119-121, one transaction of the loop: its splits on
\* accounts of type ASSET are read and their amounts added as floats.
BalanceSplits(p) ==
    /\ proc[p].pc = "bal_tx"
    /\ proc[p].todo # <<>>
    /\ LET asset_splits ==
               SelectSeq(SplitsOf(db, Head(proc[p].todo)),
                         LAMBDA s : db.Account[s.account].account_type = "ASSET")
       IN  proc' = [proc EXCEPT
              ![p].todo = Tail(@),
              ![p].balance = @ + SumSeq([k \in 1..Len(asset_splits) |->
                                            asset_splits[k].amount])]
    /\ UNCHANGED <<db, last, mem>>

\* get_balance line 123 and the test of lines 184 / 368:
\* round(total_balance, 2) < amount, in cents.
Insufficient(loc) == Quantize2(loc.balance) < loc.amount

\* The locals of a call once get_balance has returned and was tested.
Tested(loc) == [loc EXCEPT !.balance = 0]

\* spend_funds line 183: the call starts with get_balance().
SpendCall(p, amount, category) ==
    /\ proc[p].pc = "acc_done"
    /\ proc[p].in.asset_account_name = WalletName
    /\ proc' = [proc EXCEPT ![p] =
                  MethodCall(p, "bal_list", "spend_funds", ExpenseName(category),
                             "EXPENSE", amount)]
    /\ UNCHANGED <<db, last, mem>>

\* spend_funds lines 184-195, get_balance having returned: ValueError when
\* the balance is below the amount, else the lookup of get_or_create for the
\* expense account.
SpendAccountGet(p) ==
    /\ proc[p].pc = "bal_tx"
    /\ proc[p].todo = <<>>
    /\ proc[p].call.op = "spend_funds"
    /\ proc' = [proc EXCEPT ![p] = IF Insufficient(@)
                                   THEN Raised(Tested(@), "ValueError")
                                   ELSE AccountGet(Tested(@))]
    /\ UNCHANGED <<db, last, mem>>

\* transfer_funds lines 361-367: LedgerAccount.objects.get(accountID=
\* target_account_id, is_active=True), in any ledger; DoesNotExist becomes
\* ValueError (line 406).  get_balance() is next.
TransferTargetGet(p, amount, target_account_id) ==
    /\ proc[p].pc = "acc_done"
    /\ proc[p].in.asset_account_name = WalletName
    /\ proc' = IF /\ target_account_id \in 1..Len(db.Account)
                  /\ db.Account[target_account_id].is_active
               THEN [proc EXCEPT ![p] =
                       [MethodCall(p, "bal_list", "transfer_funds", "", "", amount)
                          EXCEPT !.other_acc = target_account_id]]
               ELSE [proc EXCEPT ![p] =
                       Raised(MethodCall(p, "acc_done", "transfer_funds", "", "", amount),
                              "ValueError")]
    /\ UNCHANGED <<db, last, mem>>

\* transfer_funds lines 368-377, get_balance having returned: ValueError when
\* the balance is below the amount (raised inside the try, it becomes the
\* ValueError of line 408), else LedgerTransaction.objects.create.
TransferTransaction(p) ==
    /\ proc[p].pc = "bal_tx"
    /\ proc[p].todo = <<>>
    /\ proc[p].call.op = "transfer_funds"
    /\ IF Insufficient(proc[p])
       THEN proc' = [proc EXCEPT ![p] = Raised(Tested(@), "ValueError")] /\ db' = db
       ELSE /\ Len(db.Transaction) < MaxFundsTxs
            /\ db' = [db EXCEPT !.Transaction =
                         Append(@, [ledger |-> proc[p].in.ledger_id, date |-> Today,
                                    necessary |-> FALSE])]
            /\ proc' = [proc EXCEPT ![p] =
                          [Tested(@) EXCEPT !.pc = "funds_split1",
                                            !.tx_ids = <<Len(db.Transaction) + 1>>]]
    /\ UNCHANGED <<last, mem>>

(***************************************************************************)
(* api/transactions.py create_double_entry_transaction: a request of the   *)
(* user `username` with fields desc, date and splits, each split          *)
(* an amount (in cents) and an accountId; no 'tags' and no 'necessary'     *)
(* field, the date Today's.                                                *)
(***************************************************************************)
DeSplitInput(amount, accountId) == [amount |-> amount, accountId |-> accountId]
DeInputs ==
    [username : Usernames,
     splits : { <<DeSplitInput(1000, 1)>>,
                <<DeSplitInput(1000, 1), DeSplitInput(1000, 2)>>,
                <<DeSplitInput(1000, 1), DeSplitInput(-1000, 2)>>,
                <<DeSplitInput(1000, 2), DeSplitInput(-1000, 1)>> }]

\* Lines 222-240: fewer than 2 splits, or amounts whose Decimal sum is not
\* zero, are answered 400 before anything is written.
DeValid(in) ==
    /\ Len(in.splits) >= 2
    /\ SumSeq([k \in 1..Len(in.splits) |-> in.splits[k].amount]) = 0

\* Lines 207-240: the request is refused, or goes on to write.
DeCall(p, in) ==
    /\ proc[p].pc = "idle"
    /\ IF DeValid(in)
       THEN /\ proc' = [proc EXCEPT ![p] =
                          [Idle EXCEPT !.pc = "de_ledger", !.todo = in.splits,
                                       !.username = in.username]]
       ELSE /\ proc' = [proc EXCEPT ![p] =
                          [Idle EXCEPT !.pc = "de_done", !.ok = FALSE, !.err = "400"]]
    /\ UNCHANGED <<db, last, mem>>

\* Lines 243-245: Ledger.objects.get_or_create(username=...), the SELECT.
\* MultipleObjectsReturned is caught at line 285 and answered 500.
DeLedger(p) ==
    /\ proc[p].pc = "de_ledger"
    /\ LET loc == LedgerGet(db, proc[p], proc[p].username, "de_tx")
       IN  proc' = [proc EXCEPT ![p] =
              IF loc.pc = "ledger_raised"
              THEN [Idle EXCEPT !.pc = "de_done", !.ok = FALSE, !.err = "500"]
              ELSE loc]
    /\ UNCHANGED <<db, last, mem>>

\* Lines 248-253: LedgerTransaction.objects.create; necessary defaults to
\* True.
DeTransaction(p) ==
    /\ proc[p].pc = "de_tx"
    /\ Len(db.Transaction) < MaxFundsTxs
    /\ db' = [db EXCEPT !.Transaction =
                 Append(@, [ledger |-> proc[p].in.ledger_id, date |-> Today,
                            necessary |-> TRUE])]
    /\ proc' = [proc EXCEPT ![p].pc = "de_account",
                            ![p].tx_ids = <<Len(db.Transaction) + 1>>]
    /\ UNCHANGED <<last, mem>>

\* Lines 257-259, the next split of the loop:
\* LedgerAccount.objects.get(accountID=...), in any ledger.
DeAccountGet(p) ==
    /\ proc[p].pc = "de_account"
    /\ LET id == Head(proc[p].todo).accountId
       IN  proc' = IF id \in 1..Len(db.Account)
                   THEN [proc EXCEPT ![p].pc = "de_split", ![p].other_acc = id]
                   ELSE [proc EXCEPT ![p].pc = "de_delete"]
    /\ UNCHANGED <<db, last, mem>>

\* Lines 265-269: Split.objects.create with amount Decimal(str(amount)),
\* stored as a float.
DeSplit(p) ==
    /\ proc[p].pc = "de_split"
    /\ db' = SplitCreate(db, proc[p].tx_ids[1], proc[p].other_acc,
                         Head(proc[p].todo).amount)
    /\ proc' = [proc EXCEPT ![p].todo = Tail(@),
                            ![p].pc = IF Tail(proc[p].todo) = <<>> THEN "de_done"
                                      ELSE "de_account"]
    /\ UNCHANGED <<last, mem>>

\* Model.delete() of a Transaction: the row, and by CASCADE its Split rows
\* and tag associations, in the one transaction Django's deletion opens.
TransactionDelete(d, tx) ==
    [d EXCEPT !.Transaction[tx] = DeletedTransaction,
              !.Split  = SelectSeq(@, LAMBDA s : s.transaction # tx),
              !.TxTags = {t \in @ : t[1] # tx}]

\* Lines 260-263: the account was not found; transaction.delete(), answer 404.
DeDelete(p) ==
    /\ proc[p].pc = "de_delete"
    /\ db' = TransactionDelete(db, proc[p].tx_ids[1])
    /\ proc' = [proc EXCEPT ![p].pc = "de_done", ![p].ok = FALSE, ![p].err = "404"]
    /\ UNCHANGED <<last, mem>>

\* The response: 400 (lines 224-240), 404 (lines 261-263), 500 or 201 with the
\* transaction's id (lines 277-280); the request is over.
DeReturn(p) ==
    /\ proc[p].pc = "de_done"
    /\ proc' = [proc EXCEPT ![p] = Idle]
    /\ UNCHANGED <<db, last, mem>>

\* The constructor's insert of the wallet account, within the bound on rows.
FundsWalInsert(p) == Len(db.Account) < MaxFundsAccounts /\ WalInsert(p)

\* Every process constructs services and adds funds; the calls of
\* spend_funds, transfer_funds and create_double_entry_transaction that are
\* followed are those of Caller, next to whatever the other process does.
NextFunds ==
    \/ \E p \in Procs, username \in FundsUsers : WalLedger(p, username)
    \/ \E p \in Procs : LedgerInsert(p)
    \/ \E p \in Procs : WalGet(p)
    \/ \E p \in Procs : WalFirst(p)
    \/ \E p \in Procs : WalRest(p)
    \/ \E p \in Procs : WalDeactivate(p)
    \/ \E p \in Procs : FundsWalInsert(p)
    \/ \E p \in Procs, amount \in FundsAmounts : FundsIncomeGet(p, amount)
    \/ \E p \in Procs : FundsAccountInsert(p)
    \/ \E p \in Procs : FundsTransaction(p)
    \/ \E p \in Procs : FundsSplitFirst(p)
    \/ \E p \in Procs : FundsSplitSecond(p)
    \/ \E p \in Procs : FundsReturn(p)
    \/ \E amount \in SpendAmounts, category \in SpendCategories :
          SpendCall(Caller, amount, category)
    \/ \E p \in Procs : BalanceList(p)
    \/ \E p \in Procs : BalanceSplits(p)
    \/ \E p \in Procs : SpendAccountGet(p)
    \/ \E amount \in TransferAmounts, target \in 1..MaxFundsAccounts :
          TransferTargetGet(Caller, amount, target)
    \/ \E p \in Procs : TransferTransaction(p)
    \/ \E in \in DeInputs : DeCall(Caller, in)
    \/ \E p \in Procs : DeLedger(p)
    \/ \E p \in Procs : DeTransaction(p)
    \/ \E p \in Procs : DeAccountGet(p)
    \/ \E p \in Procs : DeSplit(p)
    \/ \E p \in Procs : DeDelete(p)
    \/ \E p \in Procs : DeReturn(p)

SpecFunds == Init /\ [][NextFunds]_vars

(***************************************************************************)
(* WalletLedgerService.__init__: the two retry loops, one store statement  *)
(* at a time.  proc[p].idx is the local `attempt`, proc[p].in.ledger_id    *)
(* the ledger of the user.  What a statement meets in the store is an      *)
(* input: it succeeds, raises sqlite3.OperationalError (the lock error the *)
(* loops catch), or raises any other exception.  The signal handler        *)
(* create_user_wallet (wallet_models.py) has the same loop around its own  *)
(* get_or_create of the wallet account.                                    *)
(***************************************************************************)
max_attempts == 5

InitUsers == {"alice"}   \* the users

AttemptOutcomes == {"ok", "sqlite3.OperationalError", "Exception"}

\* __init__ lines 32-39 and 50-57: attempt has just been incremented; the
\* loop gives up when it reaches max_attempts, else sleeps and tries again.
RetryAlways(attempt) == "retry"
RetryOutcome(attempt) == IF attempt >= max_attempts THEN "raise" ELSE "retry"

\* The step of a loop after a statement of its body raised: lines 32-42 /
\* 50-60.  The next attempt starts the body again, at `retry`.
AfterRaise(p, outcome, retry) ==
    IF outcome = "sqlite3.OperationalError"
       /\ RetryOutcome(proc[p].idx + 1) = "retry"
    THEN [proc EXCEPT ![p].idx = @ + 1, ![p].pc = retry, ![p].dups = {},
                      ![p].asset_acc = None]
    ELSE [proc EXCEPT ![p].pc = "init_failed", ![p].ok = FALSE, ![p].dups = {},
                      ![p].asset_acc = None,
                      ![p].idx = IF outcome = "sqlite3.OperationalError"
                                 THEN @ + 1 ELSE @]

\* WalletLedgerService(user): lines 20-24.
InitCall(p, username) ==
    /\ proc[p].pc = "idle"
    /\ proc' = [proc EXCEPT ![p] =
                   [Idle EXCEPT !.pc = "init_ledger", !.in = AccCall(WalletName, None),
                                !.username = username]]
    /\ UNCHANGED <<db, last, mem>>

\* One iteration of the first loop, lines 25-42: the SELECT of
\* Ledger.objects.get_or_create.  MultipleObjectsReturned is caught at line
\* 40 as any exception is.
InitLedgerTry(p, outcome) ==
    /\ proc[p].pc = "init_ledger"
    /\ LET loc == LedgerGet(db, proc[p], proc[p].username, "init_account")
       IN  proc' = IF outcome # "ok" THEN AfterRaise(p, outcome, "init_ledger")
                   ELSE IF loc.pc = "ledger_raised"
                   THEN AfterRaise(p, "Exception", "init_ledger")
                   ELSE IF loc.pc = "ledger_insert"
                   THEN [proc EXCEPT ![p] = [loc EXCEPT !.pc = "init_ledger_insert"]]
                   ELSE [proc EXCEPT ![p] = [loc EXCEPT !.idx = 0]]
    /\ UNCHANGED <<db, last, mem>>

\* Lines 27-30, the INSERT of Ledger.objects.get_or_create; line 44:
\* attempt = 0.
InitLedgerInsert(p, outcome) ==
    /\ proc[p].pc = "init_ledger_insert"
    /\ IF outcome = "ok"
       THEN /\ NextLedgerPk(db) <= MaxLedgerPk
            /\ db' = LedgerInsertRow(db, NextLedgerPk(db), proc[p].username)
            /\ proc' = [proc EXCEPT ![p] =
                           [LedgerCreated(proc[p], NextLedgerPk(db)) EXCEPT !.idx = 0]]
       ELSE /\ db' = db
            /\ proc' = AfterRaise(p, outcome, "init_ledger")
    /\ UNCHANGED <<last, mem>>

\* An iteration of the second loop, lines 45-60, starts
\* _get_or_create_wallet_account: the lookup of Account.objects.get_or_create
\* (lines 67-75).  One row is returned, no row leads to the insert, several
\* rows raise MultipleObjectsReturned (handled at line 87); any other
\* exception reaches the loop.
InitAccountTry(p, outcome) ==
    /\ proc[p].pc = "init_account"
    /\ LET rows == AccountsNamed(db, WalletName, proc[p].in.ledger_id)
       IN  proc' = IF outcome # "ok" THEN AfterRaise(p, outcome, "init_account")
                   ELSE IF rows = {} THEN [proc EXCEPT ![p].pc = "init_insert"]
                   ELSE IF Cardinality(rows) = 1
                   THEN [proc EXCEPT ![p].pc = "acc_done", ![p].asset_acc = Lowest(rows)]
                   ELSE [proc EXCEPT ![p].pc = "init_first"]
    /\ UNCHANGED <<db, last, mem>>

\* Lines 67-75, the insert of Account.objects.get_or_create.
InitAccountInsert(p, outcome) ==
    /\ proc[p].pc = "init_insert"
    /\ IF outcome = "ok"
       THEN /\ db' = [db EXCEPT !.Account =
                         Append(@, [ledger |-> proc[p].in.ledger_id, name |-> WalletName,
                                    account_type |-> "ASSET", parent |-> None,
                                    is_active |-> TRUE])]
            /\ proc' = [proc EXCEPT ![p].pc = "acc_done",
                                    ![p].asset_acc = Len(db.Account) + 1]
       ELSE /\ db' = db
            /\ proc' = AfterRaise(p, outcome, "init_account")
    /\ UNCHANGED <<last, mem>>

\* Lines 90-91: accounts.first(), the row of lowest accountID; an exception
\* is raised again (line 102) and reaches the loop.
InitAccountFirst(p, outcome) ==
    /\ proc[p].pc = "init_first"
    /\ LET rows == AccountsNamed(db, WalletName, proc[p].in.ledger_id)
       IN  proc' = IF outcome # "ok" THEN AfterRaise(p, outcome, "init_account")
                   ELSE [proc EXCEPT ![p].pc = "init_rest",
                                     ![p].asset_acc = IF rows = {} THEN None
                                                      ELSE Lowest(rows)]
    /\ UNCHANGED <<db, last, mem>>

\* Lines 92-93: accounts.count() and accounts[1:], the rows after the first
\* one; an exception is raised again (line 102) and reaches the loop.
InitAccountRest(p, outcome) ==
    /\ proc[p].pc = "init_rest"
    /\ LET rows == AccountsNamed(db, WalletName, proc[p].in.ledger_id)
           rest == IF rows = {} THEN {} ELSE rows \ {Lowest(rows)}
       IN  proc' = IF outcome # "ok" THEN AfterRaise(p, outcome, "init_account")
                   ELSE [proc EXCEPT ![p].dups = rest,
                                     ![p].pc = IF rest = {} THEN "acc_done"
                                               ELSE "init_dups"]
    /\ UNCHANGED <<db, last, mem>>

\* Lines 94-98: a.is_active = False; a.save() for the next row of the loop;
\* an exception of save() is printed and the loop goes on to the next row.
InitDeactivate(p, outcome) ==
    /\ proc[p].pc = "init_dups"
    /\ LET a == Lowest(proc[p].dups)
       IN  /\ db' = IF outcome = "ok" THEN [db EXCEPT !.Account[a].is_active = FALSE]
                    ELSE db
           /\ proc' = [proc EXCEPT ![p].dups = @ \ {a},
                                   ![p].pc = IF proc[p].dups = {a} THEN "acc_done"
                                             ELSE "init_dups"]
    /\ UNCHANGED <<last, mem>>

\* The constructor returns, or its ValueError reaches the caller.
InitReturn(p) ==
    /\ proc[p].pc \in {"acc_done", "init_failed"}
    /\ last' = [NoCall EXCEPT !.op = "wallet_init", !.ok = proc[p].ok,
                              !.err = IF proc[p].ok THEN "" ELSE "ValueError",
                              !.account = proc[p].asset_acc,
                              !.total = proc[p].idx]
    /\ proc' = [proc EXCEPT ![p] = Idle]
    /\ UNCHANGED <<db, mem>>

\* An exception leaves the handler create_user_wallet.
SignalRaised(loc, err) == [loc EXCEPT !.pc = "sig_done", !.ok = FALSE, !.err = err]

\* wallet_models.py create_user_wallet, lines 181-195: a User row was
\* created; the SELECT of Ledger.objects.get_or_create(username=...), a
\* statement outside the handler's try: what it raises leaves the handler.
SignalCall(p, username, outcome) ==
    /\ proc[p].pc = "idle"
    /\ LET loc == LedgerGet(db, [Idle EXCEPT !.in = AccCall(WalletName, None)],
                            username, "sig_account")
       IN  proc' = [proc EXCEPT ![p] =
              IF outcome # "ok" THEN SignalRaised(Idle, outcome)
              ELSE IF loc.pc = "ledger_raised" THEN SignalRaised(Idle, loc.err)
              ELSE IF loc.pc = "ledger_insert" THEN [loc EXCEPT !.pc = "sig_ledger_insert"]
              ELSE loc]
    /\ UNCHANGED <<db, last, mem>>

\* Line 191, the INSERT of Ledger.objects.get_or_create; then attempt = 0.
SignalLedgerInsert(p, outcome) ==
    /\ proc[p].pc = "sig_ledger_insert"
    /\ IF outcome = "ok"
       THEN /\ NextLedgerPk(db) <= MaxLedgerPk
            /\ db' = LedgerInsertRow(db, NextLedgerPk(db), proc[p].username)
            /\ proc' = [proc EXCEPT ![p] = LedgerCreated(proc[p], NextLedgerPk(db))]
       ELSE /\ db' = db
            /\ proc' = [proc EXCEPT ![p] = SignalRaised(Idle, outcome)]
    /\ UNCHANGED <<last, mem>>

\* The handler's loop after a statement of its body raised, lines 207-217:
\* a lock error is retried until attempt reaches max_attempts; then, and on
\* any other exception, the loop is left (break) and the handler returns.
SignalAfterRaise(p, outcome) ==
    IF outcome = "sqlite3.OperationalError"
       /\ RetryOutcome(proc[p].idx + 1) = "retry"
    THEN [proc EXCEPT ![p].idx = @ + 1, ![p].pc = "sig_account"]
    ELSE [proc EXCEPT ![p].pc = "sig_done", ![p].ok = FALSE,
                      ![p].idx = IF outcome = "sqlite3.OperationalError"
                                 THEN @ + 1 ELSE @]

\* Lines 198-205, the lookup of Account.objects.get_or_create: a row ends
\* the loop, no row leads to the insert, several rows raise
\* MultipleObjectsReturned, which ends the loop as any exception does.
SignalAccountTry(p, outcome) ==
    /\ proc[p].pc = "sig_account"
    /\ LET rows == AccountsNamed(db, WalletName, proc[p].in.ledger_id)
       IN  proc' = IF outcome # "ok" THEN SignalAfterRaise(p, outcome)
                   ELSE IF rows = {} THEN [proc EXCEPT ![p].pc = "sig_insert"]
                   ELSE IF Cardinality(rows) = 1
                   THEN [proc EXCEPT ![p].pc = "sig_done"]
                   ELSE SignalAfterRaise(p, "Exception")
    /\ UNCHANGED <<db, last, mem>>

\* Lines 198-205, the insert of Account.objects.get_or_create.
SignalAccountInsert(p, outcome) ==
    /\ proc[p].pc = "sig_insert"
    /\ IF outcome = "ok"
       THEN /\ db' = [db EXCEPT !.Account =
                         Append(@, [ledger |-> proc[p].in.ledger_id, name |-> WalletName,
                                    account_type |-> "ASSET", parent |-> None,
                                    is_active |-> TRUE])]
            /\ proc' = [proc EXCEPT ![p].pc = "sig_done"]
       ELSE /\ db' = db
            /\ proc' = SignalAfterRaise(p, outcome)
    /\ UNCHANGED <<last, mem>>

\* The handler returns, raising nothing whatever its loop met, or the
\* exception of its Ledger statement leaves it (last.err).
SignalReturn(p) ==
    /\ proc[p].pc = "sig_done"
    /\ last' = [NoCall EXCEPT !.op = "create_user_wallet", !.total = proc[p].idx,
                              !.err = proc[p].err]
    /\ proc' = [proc EXCEPT ![p] = Idle]
    /\ UNCHANGED <<db, mem>>

NextInit ==
    \/ \E p \in Procs, username \in InitUsers : InitCall(p, username)
    \/ \E p \in Procs, outcome \in AttemptOutcomes : InitLedgerTry(p, outcome)
    \/ \E p \in Procs, outcome \in AttemptOutcomes : InitLedgerInsert(p, outcome)
    \/ \E p \in Procs, outcome \in AttemptOutcomes : InitAccountTry(p, outcome)
    \/ \E p \in Procs, outcome \in AttemptOutcomes : InitAccountInsert(p, outcome)
    \/ \E p \in Procs, outcome \in AttemptOutcomes : InitAccountFirst(p, outcome)
    \/ \E p \in Procs, outcome \in AttemptOutcomes : InitAccountRest(p, outcome)
    \/ \E p \in Procs, outcome \in AttemptOutcomes : InitDeactivate(p, outcome)
    \/ \E p \in Procs : InitReturn(p)
    \/ \E p \in Procs, username \in InitUsers, outcome \in AttemptOutcomes :
          SignalCall(p, username, outcome)
    \/ \E p \in Procs, outcome \in AttemptOutcomes : SignalLedgerInsert(p, outcome)
    \/ \E p \in Procs, outcome \in AttemptOutcomes : SignalAccountTry(p, outcome)
    \/ \E p \in Procs, outcome \in AttemptOutcomes : SignalAccountInsert(p, outcome)
    \/ \E p \in Procs : SignalReturn(p)

SpecInit == Init /\ [][NextInit]_vars

(***************************************************************************)
(* _compute_hash applied to the inputs of two imports.  A byte string is a *)
(* sequence of pieces, each piece a fixed byte string ("a", or the bytes   *)
(* "::RULES::"); concatenating sequences concatenates the bytes.  sha256   *)
(* is taken as injective, so a hash is the byte string that was hashed.    *)
(***************************************************************************)
MaxHashFile  == 3   \* pieces of a file (SpecHash)
MaxHashRules == 1   \* pieces of a rules file (SpecHash)

HashPieces == {"a", RulesMarker}

HashCall(f1, r1, f2, r2) ==
    [op |-> "hash_call", file1 |-> f1, rules1 |-> r1, file2 |-> f2, rules2 |-> r2,
     hash1 |-> <<>>, hash2 |-> <<>>]

InitHash ==
    /\ db = EmptyDB
    /\ proc = [p \in Procs |-> Idle]
    /\ mem = EmptyMem
    /\ last \in {HashCall(f1, r1, f2, r2) :
                    f1 \in SeqsUpTo(HashPieces, MaxHashFile),
                    r1 \in SeqsUpTo(HashPieces, MaxHashRules),
                    f2 \in SeqsUpTo(HashPieces, MaxHashFile),
                    r2 \in SeqsUpTo(HashPieces, MaxHashRules)}

\* file_hash = _compute_hash(file_bytes, rules_bytes), for each of the two.
ComputeHash ==
    /\ last.op = "hash_call"
    /\ last' = [last EXCEPT !.op = "hash_return",
                            !.hash1 = compute_hash(last.file1, last.rules1),
                            !.hash2 = compute_hash(last.file2, last.rules2)]
    /\ UNCHANGED <<db, proc, mem>>

NextHash == ComputeHash

SpecHash == InitHash /\ [][NextHash]_vars

(***************************************************************************)
(* The same calls applied to the Django repositories (db) and to the       *)
(* in-memory repositories (mem).                                           *)
(***************************************************************************)
MaxBothAccounts == 2   \* accounts created in each store (SpecBoth)
MaxBothTxs      == 2   \* create calls accepted by either store (SpecBoth)

BothCreateInputs ==
    PairInputs \cup
    { [ledger_id |-> DefaultLedger, date |-> Today, tags |-> <<>>, necessary |-> TRUE,
       splits |-> << [amount |-> Num(100000), ref |-> RefName(n)],
                     [amount |-> Num(-100000), ref |-> RefName(n)] >>] :
      n \in AccountNameInputs }

\* accounts_repo.create(name, type, ledger_id=...) on both repositories: the
\* call on DjangoAccountsRepo begins.
BothAccountCreate(p, name, ledger_id) ==
    /\ Len(db.Account) < MaxBothAccounts
    /\ RepoCreateBegin(p, AccountCall("both_account", name, detect_type_from_name(name),
                                      None, TRUE, ledger_id))

\* The call on DjangoAccountsRepo inserts its Account row and returns, and
\* InMemoryAccountsRepo.create, which touches no table, is called with the
\* same arguments.
BothAccountInsert(p) ==
    /\ proc[p].pc = "acc_insert"
    /\ LET c == proc[p].call
           r == AccountsRepo_create(db, c.name, c.account_type, c.parent, c.is_active,
                                    c.ledger_id)
       IN  /\ db' = r.db
           /\ last' = [NoCall EXCEPT !.op = c.op, !.account = r.id]
           /\ mem' = Mem_account_create(mem, c.name, c.account_type, c.ledger_id)
    /\ proc' = [proc EXCEPT ![p] = Idle]

\* tx_repo.create(...) with the same arguments on both repositories;
\* last.ok / last.err are the outcome of DjangoTransactionsRepo.create,
\* last.mem_ok / last.mem_err the outcome of InMemoryTransactionsRepo.create.
BothCreate(in) ==
    /\ \A p \in Procs : proc[p].pc = "idle"
    /\ Len(db.Transaction) < MaxBothTxs
    /\ Len(mem.txs) < MaxBothTxs
    /\ \E r \in {Repo_create(db, in)}, m \in {Mem_create(mem, in)} :
        /\ db' = r.db
        /\ mem' = m.mem
        /\ last' = [op |-> "both_create", ok |-> r.ok, err |-> r.err, tx |-> r.tx,
                    mem_ok |-> m.ok, mem_err |-> m.err, mem_tx |-> m.tx]
    /\ UNCHANGED proc

NextBoth ==
    \/ \E name \in AccountNameInputs, L \in LedgerIds : BothAccountCreate(Caller, name, L)
    \/ BothAccountInsert(Caller)
    \/ \E in \in BothCreateInputs : BothCreate(in)

SpecBoth == Init /\ [][NextBoth]_vars

(***************************************************************************)
(* Properties.                                                             *)
(***************************************************************************)

\* The sum of the stored Split amounts of a transaction, quantized to 2
\* decimals; in cents.
StoredSum(d, tx) == Quantize2(SumSeq(AmountsOf(d, tx)))

\* The sum of the amounts of a call's splits, quantized to 2 decimals once
\* after summation (round half even); in cents.
SumOfAmounts(splits) ==
    QuantizeHalfEven(SumSeq([k \in 1..Len(splits) |-> splits[k].amount.v]), MillsPerCent)

\* Every amount of the splits is written with at most 2 decimal digits.
TwoDecimals(splits) ==
    \A k \in 1..Len(splits) : splits[k].amount.v % MillsPerCent = 0

Parses(splits) == \A k \in 1..Len(splits) : splits[k].amount.kind = "num"

Resolves(d, ref) ==
    \/ ref.kind = "account_id" /\ ref.id \in 1..Len(d.Account)
    \/ ref.kind = "account_name" /\ \E i \in 1..Len(d.Account) : d.Account[i].name = ref.name

\* C1: Balance invariant.  Every Transaction in the store (a failed call
\* leaves none behind, so these are the ones calls returned) has stored Split
\* amounts whose sum, quantized to 2 decimals, is 0.00, after any sequence
\* of create and import_csv calls.
C1_BalanceInvariant == \A tx \in TxIds(db) : StoredSum(db, tx) = 0

\* An import created one transaction next to one written by create(), and
\* its splits carry non-zero amounts.
C1_Witness ==
    /\ last.op = "import" /\ last.created_count = 1
    /\ Len(db.Transaction) = 2
    /\ Cardinality(db.ImportRecord) = 1
    /\ \A r \in db.ImportRecord : r.tx_ids = <<2>>
    /\ \E k \in 1..Len(db.Split) : db.Split[k].transaction = 2 /\ db.Split[k].amount # 0
    /\ \E k \in 1..Len(db.Split) : db.Split[k].transaction = 1 /\ db.Split[k].amount # 0

\* C2: in every reachable store, create() with splits whose amounts do not
\* sum to zero (the sum taken as the data model takes it: quantized to 2
\* decimals after summation) fails with the "not balanced" ValidationError
\* that states the sum, and no row of any table is added; with splits that
\* sum to zero, an existing ledger, resolvable account references (and
\* storable tags) it succeeds and returns the new transaction.
C2_Call(d, in, r) ==
    /\ SumOfAmounts(in.splits) # 0 =>
         /\ ~r.ok /\ r.err = "NotBalanced"
         /\ r.total = SumOfAmounts(in.splits)
         /\ r.db = d
    /\ ( /\ SumOfAmounts(in.splits) = 0
         /\ in.ledger_id \in LedgerPks(d)
         /\ \A k \in 1..Len(in.splits) : Resolves(d, in.splits[k].ref)
         /\ \A k \in 1..Len(in.tags) : in.tags[k] # BadTag )
       => /\ r.ok
          /\ Len(r.db.Transaction) = Len(d.Transaction) + 1
          /\ r.tx = Len(r.db.Transaction)
          /\ Len(SplitsOf(r.db, r.tx)) = Len(in.splits)
C2_UnbalancedRejected ==
    \A in \in CreateInputs :
        Len(in.splits) >= 1 /\ Parses(in.splits)
        => \A r \in {Repo_create(db, in)} : C2_Call(db, in, r)

\* C3: no Transaction with fewer than 2 splits is ever persisted.
C3_AtLeastTwoSplits == \A tx \in TxIds(db) : Len(SplitsOf(db, tx)) >= 2

\* C4: create() is all-or-nothing: when it fails, whatever step failed, the
\* store holds no Transaction, Split, Tag or tag association of the call.
C4_AllOrNothing ==
    [][ last'.op = "create" /\ ~last'.ok
        => /\ db'.Transaction = db.Transaction
           /\ db'.Split = db.Split
           /\ db'.Tag = db.Tag
           /\ db'.TxTags = db.TxTags ]_vars

\* A call failed at tag attachment, after its Transaction row, its Splits and
\* the tag "food" were written; the tag is not in the store.
C4_Witness ==
    /\ last.op = "create" /\ ~last.ok /\ last.err = "TagError"
    /\ "food" \notin db.Tag
    /\ Len(db.Transaction) = 1

HashOf(in) == compute_hash(in.file, in.rules)

\* C5: Idempotent import.  In every reachable store, import_csv without
\* force on file+rules bytes whose ImportRecord has imported_count >= 1
\* returns skipped=true and writes nothing: Transactions, Splits, Accounts,
\* Ledgers and ImportRecords are the same after the call as before it.
C5_IdempotentImport ==
    \A in \in ImportInputs :
        ( /\ ~in.force
          /\ \E r \in FindImport(db, HashOf(in)) : r.imported_count >= 1 )
        => \A res \in {import_csv(db, in)} :
             /\ res.skipped
             /\ res.db.Transaction = db.Transaction
             /\ res.db.Split = db.Split
             /\ res.db.Account = db.Account
             /\ res.db.Ledger = db.Ledger
             /\ res.db.ImportRecord = db.ImportRecord

\* A second import of a one-row file was skipped: one record, one
\* transaction, and no second record was ever written.
C5_Witness ==
    /\ last.op = "import" /\ ~last.force /\ last.skipped
    /\ Len(db.Transaction) = 1
    /\ db.importSeq = 1
    /\ \E r \in db.ImportRecord : r.imported_count = 1 /\ r.tx_ids = <<1>>

\* C6: importing the identical file+rules bytes twice without force yields
\* createdCount=0 and skipped=true on the second call.  Stated on the store
\* the first call (the one that returned last) left behind, for a first call
\* that created at least one transaction.
C6_SecondCallCountsZero ==
    \A in \in ImportInputs :
        ( /\ last.op = "import" /\ ~last.force /\ last.ok /\ ~last.skipped
          /\ last.created_count >= 1
          /\ ~in.force
          /\ \E r \in FindImport(db, HashOf(in)) : r.id = last.import_record )
        => \A res \in {import_csv(db, in)} :
             res.skipped /\ res.created_count = 0

\* C7: when an import is skipped because of an existing ImportRecord, the
\* returned createdCount is the imported_count of that prior record and the
\* returned import record is that prior record, still in the store.  (With
\* no record for the bytes, the check of lines 131-147 must not skip; with
\* one, the whole call is considered.)
C7_SkipReturnsPriorRun ==
    \A in \in ImportInputs :
        IF FindImport(db, HashOf(in)) = {}
        THEN ~ImportCheck(db, in).skip
        ELSE \A res \in {import_csv(db, in)} :
                res.skipped
                => \E r \in FindImport(db, HashOf(in)) :
                     /\ res.import_record = r.id
                     /\ res.created_count = r.imported_count
                     /\ r \in res.db.ImportRecord

\* A second import of a two-row file was skipped and returned the count 2
\* and the record of the first run.
C7_Witness ==
    /\ last.op = "import" /\ last.skipped
    /\ last.created_count = 2 /\ last.import_record = 1
    /\ \E r \in db.ImportRecord : r.id = 1 /\ r.imported_count = 2
    /\ Len(db.Transaction) = 2

\* C8: two import_csv calls on the same bytes, without force, that overlap:
\* in every interleaving, when both have returned, neither failed and the
\* store holds the transactions of exactly one run.
C8_ConcurrentImportOnce ==
    ( /\ \A p \in Procs : proc[p].pc = "done" /\ ~proc[p].in.force
      /\ \A p, q \in Procs : HashOf(proc[p].in) = HashOf(proc[q].in) )
    => /\ \A p \in Procs : proc[p].ok
       /\ \E p \in Procs : /\ ~proc[p].skipped
                           /\ Len(db.Transaction) = Len(proc[p].tx_ids)

\* C9: Forced reimport.  In every reachable store, import_csv with force on
\* bytes that have an ImportRecord deletes that record, runs every row again
\* and writes a new record: afterwards exactly one ImportRecord has this
\* hash (a new one, carrying the run's count and transactions), the earlier
\* transactions and their splits are still in the store, and the store holds
\* the earlier transactions plus one per row that did not end in errors.
C9_ForcedReimport ==
    \A in \in ImportInputs :
        ( in.force /\ FindImport(db, HashOf(in)) # {} )
        => \A res \in {import_csv(db, in)} :
             /\ res.ok /\ ~res.skipped
             /\ \A old \in FindImport(db, HashOf(in)) :
                   \A r \in res.db.ImportRecord : r.id # old.id
             /\ Cardinality(FindImport(res.db, HashOf(in))) = 1
             /\ \A r \in FindImport(res.db, HashOf(in)) :
                   /\ r.id = res.import_record
                   /\ r.imported_count = res.created_count
                   /\ Len(r.tx_ids) = res.created_count
                   /\ \A k \in 1..Len(r.tx_ids) : r.tx_ids[k] > Len(db.Transaction)
             /\ res.created_count + Len(res.errors) = Len(in.file)
             /\ Len(res.db.Transaction) = Len(db.Transaction) + res.created_count
             /\ SubSeq(res.db.Transaction, 1, Len(db.Transaction)) = db.Transaction
             /\ \A tx \in TxIds(db) : SplitsOf(res.db, tx) = SplitsOf(db, tx)
             /\ \A i \in 1..Len(in.file) :
                   (\E k \in 1..Len(res.errors) : res.errors[k] = i)
                   <=> \/ RowOf(in.file[i]).date = None
                       \/ ~parse_amount_ok(RowOf(in.file[i]).amount)

\* A forced reimport of a one-row file: the record of the first run is gone,
\* the new record holds the second transaction, both transactions are stored.
C9_Witness ==
    /\ last.op = "import" /\ last.force /\ last.ok /\ ~last.skipped
    /\ last.created_count = 1 /\ last.import_record = 2
    /\ Len(db.Transaction) = 2
    /\ Cardinality(db.ImportRecord) = 1
    /\ \A r \in db.ImportRecord : r.id = 2 /\ r.tx_ids = <<2>>

\* C10: Retry after a failed attempt.  In every reachable store, import_csv
\* without force on bytes whose ImportRecord has imported_count 0 deletes
\* the stale record, processes all rows again and ends with exactly one
\* ImportRecord for the hash, a new one carrying the run's count, and
\* skipped=false.
C10_RetryAfterFailedAttempt ==
    \A in \in ImportInputs :
        ( /\ ~in.force
          /\ FindImport(db, HashOf(in)) # {}
          /\ \A r \in FindImport(db, HashOf(in)) : r.imported_count = 0 )
        => \A res \in {import_csv(db, in)} :
             /\ res.ok /\ ~res.skipped
             /\ \A old \in FindImport(db, HashOf(in)) :
                   \A r \in res.db.ImportRecord : r.id # old.id
             /\ Cardinality(FindImport(res.db, HashOf(in))) = 1
             /\ \A r \in FindImport(res.db, HashOf(in)) :
                   /\ r.id = res.import_record
                   /\ r.imported_count = res.created_count
                   /\ r.errors = res.errors
             /\ res.created_count + Len(res.errors) = Len(in.file)
             /\ Len(res.db.Transaction) = Len(db.Transaction) + res.created_count

\* A retry, without force, of a file whose only row fails: the stale record
\* (id 1) was replaced by the record of the retry (id 2), which lists the
\* failed row.
C10_Witness ==
    /\ last.op = "import" /\ ~last.force /\ last.ok /\ ~last.skipped
    /\ last.import_record = 2 /\ last.created_count = 0
    /\ Len(last.errors) = 1
    /\ Cardinality(db.ImportRecord) = 1
    /\ \A r \in db.ImportRecord : r.id = 2 /\ r.imported_count = 0 /\ r.errors = <<1>>

\* C11: Account uniqueness.  After any sequence of DjangoAccountsRepo.create
\* calls no two Account rows, active or inactive, share (ledger, name).
C11_AccountUniqueness ==
    \A i, j \in 1..Len(db.Account) :
        ( /\ db.Account[i].ledger = db.Account[j].ledger
          /\ db.Account[i].name = db.Account[j].name ) => i = j

\* The account names _ensure_account is asked for.
EnsureNames == {"ASSET:Bank", "Expenses:Uncategorized", "Expenses:Food"}

\* C12: get-or-create by name is idempotent per ledger.  In every reachable
\* store, when ledger L has an account named n (whatever accounts named n
\* other ledgers hold), _ensure_account(n, L) returns that account and
\* creates nothing; it creates an account only when L has none named n.
C12_EnsureIdempotentPerLedger ==
    \A n \in EnsureNames, L \in LedgerIds :
        \A res \in {ensure_account(db, n, detect_type_from_name(n), L)} :
            IF AccountsNamed(db, n, L) # {}
            THEN res.db = db /\ res.id \in AccountsNamed(db, n, L)
            ELSE Len(res.db.Account) = Len(db.Account) + 1

\* C13: Ledger isolation of get-or-create.  In every reachable store,
\* _ensure_account(n, L) returns an account named n that belongs to L, never
\* one of another ledger; when n exists only in other ledgers the call adds a
\* new account owned by L and returns it.
C13_LedgerIsolation ==
    \A n \in EnsureNames, L \in LedgerIds :
        \A res \in {ensure_account(db, n, detect_type_from_name(n), L)} :
            /\ res.id \in 1..Len(res.db.Account)
            /\ res.db.Account[res.id].ledger = L
            /\ res.db.Account[res.id].name = n
            /\ ( /\ AccountsNamed(db, n, L) = {}
                 /\ \E M \in LedgerIds : AccountsNamed(db, n, M) # {} )
               => /\ res.id = Len(db.Account) + 1
                  /\ SubSeq(res.db.Account, 1, Len(db.Account)) = db.Account

\* An import into ledger 2 found "ASSET:Bank" only in ledger 1 and created
\* its own account of that name; the transaction's splits are on accounts of
\* ledger 2.
C13_Witness ==
    /\ last.op = "import" /\ last.ok /\ last.created_count = 1
    /\ Len(db.Account) = 4
    /\ db.Account[1].name = "ASSET:Bank" /\ db.Account[1].ledger = 1
    /\ db.Account[3].name = "ASSET:Bank" /\ db.Account[3].ledger = 2
    /\ Len(db.Transaction) = 2
    /\ \A s \in {SplitsOf(db, 2)[k] : k \in 1..Len(SplitsOf(db, 2))} :
          db.Account[s.account].ledger = 2

\* C14: Account get-or-create race.  Two callers get-or-create the same
\* account name in the same ledger and their calls overlap: when both have
\* their account, exactly one row with that (ledger, name) exists, both hold
\* that row, and neither failed.
C14_GetOrCreateRace ==
    \A p, q \in Procs :
        ( /\ p # q
          /\ proc[p].pc = "acc_done" /\ proc[q].pc = "acc_done"
          /\ proc[p].in = proc[q].in )
        => /\ proc[p].ok /\ proc[q].ok
           /\ proc[p].asset_acc = proc[q].asset_acc
           /\ Cardinality(AccountsNamed(db, proc[p].in.asset_account_name,
                                        proc[p].in.ledger_id)) = 1

\* The accounts met following parent links from account i, at most k links.
RECURSIVE ParentChain(_, _, _)
ParentChain(d, i, k) ==
    IF k = 0 \/ d.Account[i].parent = None THEN {}
    ELSE {d.Account[i].parent} \cup ParentChain(d, d.Account[i].parent, k - 1)

\* C15: Cycle freedom.  In every chart of accounts reachable through
\* DjangoAccountsRepo.create (with a parent id), AccountService.create_account
\* and AccountService.update_account, following parent links from an account
\* never returns to that account, and every parent is an existing account.
C15_CycleFreedom ==
    \A i \in 1..Len(db.Account) :
        /\ i \notin ParentChain(db, i, Len(db.Account))
        /\ db.Account[i].parent \in {None} \cup (1..Len(db.Account))

\* update_account was asked to put account 1 under another account while
\* account 2 is a child of account 1 and account 3 a child of account 2; the
\* call failed and the chart is as it was.
C15_Witness ==
    /\ last.op = "update_account" /\ ~last.ok /\ last.err = "ValueError"
    /\ Len(db.Account) = 3
    /\ db.Account[2].parent = 1 /\ db.Account[3].parent = 2
    /\ db.Account[1].parent = None

\* C16: in every reachable store, AccountService.create_account with an empty
\* name or a type outside ASSET, LIABILITY, EQUITY, INCOME, EXPENSE raises an
\* error and the Account table is unchanged; with a non-empty name and a
\* recognized type it returns a new account carrying that name and type.
C16_CreateAccountValidates ==
    \A name \in ChartNames, t \in ChartTypes, parent \in ChartParents, a \in BOOLEAN :
        \A r \in {create_account(db, name, t, parent, a)} :
            IF name = "" \/ t \notin {"ASSET", "LIABILITY", "EQUITY", "INCOME", "EXPENSE"}
            THEN ~r.ok /\ r.db = db
            ELSE /\ r.ok
                 /\ Len(r.db.Account) = Len(db.Account) + 1
                 /\ r.id = Len(r.db.Account)
                 /\ r.db.Account[r.id].name = name
                 /\ r.db.Account[r.id].account_type = t
                 /\ SubSeq(r.db.Account, 1, Len(db.Account)) = db.Account

\* create_account rejected a call while the store already held an account
\* created by an earlier, valid call with type EQUITY.
C16_Witness ==
    /\ last.op = "create_account" /\ ~last.ok
    /\ Len(db.Account) = 1
    /\ db.Account[1].account_type = "EQUITY" /\ db.Account[1].name = "Cash"

\* The predicate of a rule on a text: a keyword rule holds when one of its
\* keywords is a case-insensitive substring of the text, a regex rule when
\* its pattern is valid and found case-insensitively; a rule with an empty
\* matcher never holds.
RuleHolds(text, r) ==
    \/ /\ r.matcher_type = "keyword"
       /\ \E kw \in {r.matcher[k] : k \in 1..Len(r.matcher)} : Contains(text, kw)
    \/ /\ r.matcher_type = "regex"
       /\ r.matcher # ""
       /\ RegexSearch(r.matcher, text) = "match"

\* C17: first match wins.  _match_rule(text, rules) returns the rule of
\* smallest index whose predicate holds, passing over rules with an empty
\* matcher or an invalid regex, and returns none exactly when no rule's
\* predicate holds.
C17_FirstMatchWins ==
    last.op = "match_return"
    => LET rules == SeqMap(RuleOf, last.rules)
           holds == {i \in 1..Len(rules) : RuleHolds(last.text, rules[i])}
       IN  /\ (last.result = None) <=> (holds = {})
           /\ last.result # None =>
                 /\ last.result \in holds
                 /\ \A j \in holds : last.result <= j

\* "Grocery Store" against an invalid regex, then two keyword rules that both
\* hold: the second rule of the list was returned.
C17_Witness ==
    /\ last.op = "match_return"
    /\ last.text = "Grocery Store"
    /\ last.rules = <<"R_badre", "R_shop", "R_food">>
    /\ last.result = 2

\* A row that cannot be imported: no amount column, an amount Decimal()
\* cannot parse, or a date no format parses.
RowFails(row) ==
    \/ row.amount.kind \notin {"num", "paren"}
    \/ row.date = None

FailedRows(file) == {i \in 1..Len(file) : RowFails(RowOf(file[i]))}

IsIncreasingListOf(s, S) ==
    /\ {s[k] : k \in 1..Len(s)} = S
    /\ \A k \in 1..(Len(s) - 1) : s[k] < s[k + 1]

\* The transactions the store held when the run that wrote ImportRecord ir
\* began, where imports alone write transactions and none is forced: the
\* counts of the other records.
RECURSIVE SumCounts(_)
SumCounts(S) ==
    IF S = {} THEN 0
    ELSE LET r == CHOOSE x \in S : TRUE IN r.imported_count + SumCounts(S \ {r})
ImportedBefore(d, ir) == SumCounts({r \in d.ImportRecord : r.id # ir})

\* What C18 says of a run of import_csv(in) that was not skipped: n is the
\* number of transactions before the call, d the store after it, res the
\* result.
C18_Run(n, d, in, res) ==
    /\ res.ok /\ ~res.skipped
    /\ IsIncreasingListOf(res.errors, FailedRows(in.file))
    /\ res.created_count = Len(in.file) - Cardinality(FailedRows(in.file))
    /\ Len(d.Transaction) = n + res.created_count
    /\ \E r \in FindImport(d, HashOf(in)) :
          /\ r.id = res.import_record
          /\ r.imported_count = res.created_count
          /\ r.errors = res.errors
          /\ IsIncreasingListOf(r.tx_ids, (n + 1)..Len(d.Transaction))

\* C18: Row-level failures never abort an import.  In every reachable store
\* and for every file not imported before, import_csv returns normally with
\* the ImportRecord written; its errors list holds exactly one entry "row k:"
\* for every failed row k, in row order, rows after a failed row included;
\* a failed row creates no transaction and every other row creates one.
\* Checked of each call that was followed statement by statement and not
\* skipped, when it is about to return, and of one more call on the store
\* each call left.
C18_RowFailuresDoNotAbort ==
    /\ proc[Caller].pc = "done" /\ ~proc[Caller].skipped
       => C18_Run(ImportedBefore(db, proc[Caller].import_record), db,
                  proc[Caller].in, proc[Caller])
    /\ proc[Caller].pc = "idle"
       => \A in \in RowImportInputs :
             FindImport(db, HashOf(in)) = {}
             => \A res \in {import_csv(db, in)} :
                   C18_Run(Len(db.Transaction), res.db, in, res)

\* A three-row file whose second row failed: rows 1 and 3 became
\* transactions 1 and 2, the error list names row 2.
C18_Witness ==
    /\ last.op = "import" /\ last.ok /\ ~last.skipped
    /\ last.errors = <<2>> /\ last.created_count = 2
    /\ Len(db.Transaction) = 2
    /\ \E r \in db.ImportRecord :
          /\ r.id = last.import_record
          /\ r.tx_ids = <<1, 2>> /\ r.errors = <<2>>
          /\ Len(r.file_hash) >= 3

\* The rows of a file that are imported, in row order.
GoodRows(file) == SelectSeq([i \in 1..Len(file) |-> i],
                            LAMBDA i : ~RowFails(RowOf(file[i])))

\* The signed amount of a row in cents: "(v)" is -v; 2 decimals are kept.
RowCents(row) ==
    QuantizeHalfEven(IF row.amount.kind = "paren" THEN -row.amount.v ELSE row.amount.v,
                     MillsPerCent)

NoRuleHolds(text, rules) ==
    \A k \in 1..Len(rules) : ~RuleHolds(text, rules[k])

\* What C19 says of a run of import_csv(in): n is the number of
\* transactions before the call, d the store after it, created_count the
\* count it returned.
C19_Run(n, d, in, created_count) ==
    /\ created_count = Len(GoodRows(in.file))
    /\ Len(d.Transaction) = n + Len(GoodRows(in.file))
    /\ \A k \in 1..Len(GoodRows(in.file)) :
         LET row    == RowOf(in.file[GoodRows(in.file)[k]])
             tx     == n + k
             splits == SplitsOf(d, tx)
             asset  == d.Account[splits[1].account]
             other  == d.Account[splits[2].account]
         IN  /\ Len(splits) = 2
             /\ asset.name = in.asset_account_name
             /\ asset.ledger = in.ledger_id
             /\ other.ledger = in.ledger_id
             /\ splits[1].amount = ToFloat(RowCents(row))
             /\ splits[2].amount = ToFloat(-RowCents(row))
             /\ NoRuleHolds(row.text, load_rules(d, in))
                => /\ other.name = IF RowCents(row) < 0
                                   THEN "Expenses:Uncategorized"
                                   ELSE "Income:Uncategorized"
                   /\ other.account_type = IF RowCents(row) < 0
                                           THEN "EXPENSE" ELSE "INCOME"
                   /\ d.Transaction[tx].necessary = FALSE

\* C19: in every reachable store and for every file not imported before,
\* each imported row yields exactly one transaction with exactly two splits:
\* the first on the asset account of the target ledger with the row amount,
\* the second on the counter-account with its negation; when no rule (of
\* the rules file, or of the Rule table when there is no file) matches the
\* row, the counter-account is Expenses:Uncategorized of type EXPENSE for
\* a negative amount and Income:Uncategorized of type INCOME otherwise, and
\* necessary is false.  Checked of each call that was followed statement by
\* statement and not skipped, when it is about to return, and of one more
\* call on the store each call left.
C19_RowYieldsTwoSplits ==
    /\ proc[Caller].pc = "done" /\ ~proc[Caller].skipped
       => C19_Run(ImportedBefore(db, proc[Caller].import_record), db,
                  proc[Caller].in, proc[Caller].created_count)
    /\ proc[Caller].pc = "idle"
       => \A in \in RowImportInputs :
             FindImport(db, HashOf(in)) = {}
             => \A res \in {import_csv(db, in)} :
                   C19_Run(Len(db.Transaction), res.db, in, res.created_count)

\* A file with a row of amount 0.00 and a row of amount (12.345) matched by
\* no rule: two transactions, the first against Income:Uncategorized, the
\* second, of -12.34, against Expenses:Uncategorized, neither marked
\* necessary.
C19_Witness ==
    /\ last.op = "import" /\ last.created_count = 2 /\ last.errors = <<>>
    /\ Len(db.Transaction) = 2 /\ Len(db.Split) = 4
    /\ db.Split[1].amount = 0 /\ db.Split[2].amount = 0
    /\ db.Account[db.Split[2].account].name = "Income:Uncategorized"
    /\ db.Account[db.Split[2].account].account_type = "INCOME"
    /\ db.Split[3].amount = ToFloat(-1234) /\ db.Split[4].amount = ToFloat(1234)
    /\ db.Account[db.Split[3].account].name = "ASSET:Bank"
    /\ db.Account[db.Split[4].account].name = "Expenses:Uncategorized"
    /\ db.Account[db.Split[4].account].account_type = "EXPENSE"
    /\ ~db.Transaction[1].necessary /\ ~db.Transaction[2].necessary

\* C20: Transaction listing order.  A listing returned by
\* DjangoTransactionsRepo.list or InMemoryTransactionsRepo.list is ordered by
\* date descending, and of two transactions with the same date the one
\* created later (higher id) comes first.
C20_ListingOrder ==
    last.op \in {"list", "mem_list"}
    => \A k \in 1..(Len(last.listing) - 1) :
          \/ last.listing[k].date > last.listing[k + 1].date
          \/ /\ last.listing[k].date = last.listing[k + 1].date
             /\ last.listing[k].id > last.listing[k + 1].id

\* C21: Transaction listing is scoped to a ledger.  In every reachable store
\* and for every ledger L, a listing for L with no filter (list takes no
\* ledger argument: a ledger_id keyword ends in **filters, where nothing
\* reads it) holds exactly the transactions owned by L.
C21_ListScopedToLedger ==
    \A L \in LedgerIds :
        \A l \in Django_listings(db) :
            {l[k].id : k \in 1..Len(l)} =
                {tx \in TxIds(db) : db.Transaction[tx].ledger = L}

\* C22: validation order and error kinds of create().  In every reachable
\* store: an input of two splits (amounts of 2 decimals) that is unbalanced and references an
\* unknown account is reported as not balanced; a balanced one whose ledger
\* exists and that references an unknown account id or name fails with
\* NotFoundError, not ValidationError.
C22_ValidationOrder ==
    \A in \in CreateInputs :
        ( /\ Len(in.splits) >= 2 /\ Parses(in.splits) /\ TwoDecimals(in.splits)
          /\ in.ledger_id \in LedgerPks(db)
          /\ \E k \in 1..Len(in.splits) :
                /\ in.splits[k].ref.kind \in {"account_id", "account_name"}
                /\ ~Resolves(db, in.splits[k].ref)
          /\ \A k \in 1..Len(in.splits) : in.splits[k].ref.kind # "none" )
        => \A r \in {Repo_create(db, in)} :
             /\ ~r.ok
             /\ SumOfAmounts(in.splits) # 0 => r.err = "NotBalanced"
             /\ SumOfAmounts(in.splits) = 0 => ErrorClass(r.err) = "NotFoundError"

\* C23: the balance check of create() rounds after summation.  In every
\* reachable store, an input whose amounts all parse is rejected as not
\* balanced exactly when the exact sum of the amounts, rounded to 2 decimals
\* once after summation, is not zero.
C23_RoundsAfterSummation ==
    \A in \in CreateInputs :
        ( Len(in.splits) >= 1 /\ Parses(in.splits) )
        => \A r \in {Repo_create(db, in)} :
             (r.err = "NotBalanced") <=> (SumOfAmounts(in.splits) # 0)


\* C24: store-wide balance invariant.  In every store a concurrent reader
\* can observe while add_funds calls are in progress, every Transaction row
\* has at least 2 splits and its split amounts sum to zero.
C24_StoreBalanced ==
    \A tx \in TxIds(db) :
        /\ Len(SplitsOf(db, tx)) >= 2
        /\ StoredSum(db, tx) = 0


\* The positions of a constructor inside its two retry loops.
InitLoopPcs == {"init_ledger", "init_ledger_insert", "init_account", "init_insert", "init_first",
                "init_rest", "init_dups"}

\* C25: bounded retry terminates.  While a constructor of
\* WalletLedgerService is in one of its two retry loops it has failed at
\* most 4 times in that loop, so the attempt it is making is at most the
\* 5th; a constructor that gave up did so after at most 5 failed attempts
\* of the loop; a constructor that has its account makes no further
\* attempt; and the caller of a constructor that gave up receives a
\* failure.
C25_BoundedRetry ==
    /\ \A p \in Procs :
          /\ proc[p].pc \in InitLoopPcs => proc[p].idx + 1 <= 5
          /\ proc[p].pc = "init_failed" => proc[p].idx <= 5 /\ ~proc[p].ok
          /\ proc[p].pc = "acc_done" => proc[p].idx + 1 <= 5 /\ proc[p].ok
    /\ last.op = "wallet_init" =>
          /\ last.total <= 5
          /\ last.ok <=> last.err = ""
          /\ ~last.ok => last.err = "ValueError"

\* A constructor gave up after the store stayed locked on 5 attempts.
C25_Witness ==
    \E p \in Procs : proc[p].pc = "init_failed" /\ proc[p].idx = 5


\* What C26 says of a run of import_csv(in) that was not skipped: d is the
\* store once the run has written its ImportRecord, res the result.
C26_Run(d, in, res) ==
    /\ res.ok
    /\ res.created_count + Len(res.errors) = Len(in.file)
    /\ \E r \in d.ImportRecord :
          /\ r.id = res.import_record
          /\ r.imported_count = res.created_count
          /\ Len(r.tx_ids) = res.created_count
          /\ \A j, k \in 1..Len(r.tx_ids) : j # k => r.tx_ids[j] # r.tx_ids[k]
          /\ \A k \in 1..Len(r.tx_ids) : r.tx_ids[k] \in TxIds(d)

\* C26: import accounting invariant.  In every reachable store and for every
\* input, an import_csv run that is not skipped returns a created count and
\* an error list whose lengths add up to the number of data rows, and has
\* persisted an ImportRecord whose imported_count equals the created count
\* and the number of ids in tx_ids; those ids are pairwise distinct and each
\* names a transaction of the store the call leaves.  Checked of every call
\* that is followed statement by statement, at the step that writes its
\* ImportRecord (other requests may have written between its statements),
\* and of one more call on the stores where no further call is followed.
C26_ImportAccounting ==
    /\ [][ proc[Caller].pc = "rows" /\ proc'[Caller].pc = "done"
           => C26_Run(db', proc[Caller].in, proc'[Caller]) ]_vars
    /\ []( proc[Caller].pc = "idle" /\ db.importSeq = MaxImportRuns
           => \A in \in ImportInputs :
                 \A res \in {import_csv(db, in)} :
                     ~res.skipped => C26_Run(res.db, in, res) )

\* A forced import of a two-row file whose second row fails, into a store
\* that already held a transaction: one transaction created, one error, and
\* the record names the new transaction.
C26_Witness ==
    /\ last.op = "import" /\ last.ok /\ ~last.skipped /\ last.force
    /\ last.created_count = 1 /\ last.errors = <<2>>
    /\ \E r \in db.ImportRecord :
          /\ r.id = last.import_record
          /\ r.imported_count = 1
          /\ r.tx_ids = <<2>>
          /\ Len(r.file_hash) >= 2
    /\ Len(db.Transaction) = 2


\* C27: a skipped import implies the data is in the target ledger.  In every
\* reachable store and for every input, when import_csv into ledger L is
\* skipped, the ImportRecord it returns names only transactions owned by L.
C27_SkippedImpliesInLedger ==
    \A in \in ImportInputs :
        \A res \in {import_csv(db, in)} :
            res.skipped
            => \E r \in db.ImportRecord :
                  /\ r.id = res.import_record
                  /\ \A k \in 1..Len(r.tx_ids) :
                        /\ r.tx_ids[k] \in TxIds(db)
                        /\ db.Transaction[r.tx_ids[k]].ledger = in.ledger_id


\* C28: the dedup key is injective on (file bytes, rules bytes): two imports
\* whose pairs of file content and rules content differ are hashed over
\* different byte strings.
C28_HashInjective ==
    last.op = "hash_return"
    => ( <<last.file1, last.rules1>> # <<last.file2, last.rules2>>
         => last.hash1 # last.hash2 )


\* C29: the in-memory and the Django transaction repositories implement the
\* same contract.  After any sequence of account creations and create calls
\* applied to both, the last create call succeeded in
\* InMemoryTransactionsRepo exactly when it succeeded in
\* DjangoTransactionsRepo, and both hold the same number of transactions.
C29_SameContract ==
    /\ last.op = "both_create" => (last.mem_ok <=> last.ok)
    /\ Len(mem.txs) = Len(db.Transaction)


\* C30: splits stay inside their ledger.  In every state reachable through
\* DjangoTransactionsRepo.create and import_csv, each Split of a Transaction
\* owned by ledger L references an Account owned by L.
C30_SplitsInsideLedger ==
    \A k \in 1..Len(db.Split) :
        db.Account[db.Split[k].account].ledger =
            db.Transaction[db.Split[k].transaction].ledger

=============================================================================
